---- MODULE Spec2Model ----
(***************************************************************************)
(* TurboPFor-CPP: P4 (patched frame of reference) codec with delta1.       *)
(*                                                                         *)
(* A uint32_t is modelled as the set of its set bit positions (a subset    *)
(* of 0..31), so that every value of the full 32-bit range is exact:       *)
(* OR is union, AND is intersection, shifts move positions and drop the    *)
(* ones that leave the word, addition is carried limb by limb mod 2^32.    *)
(* A byte is an integer 0..255 and a buffer is a sequence of bytes.        *)
(*                                                                         *)
(* A loop of the code over i = lo..hi is Loop(Step, st, lo, hi) on the     *)
(* record st of the loop's locals: one iteration when lo = hi, otherwise   *)
(* iterations lo..mid followed by iterations mid + 1..hi on the locals     *)
(* the first half left, which runs the same iterations in the same order.  *)
(***************************************************************************)
EXTENDS Integers, Sequences, FiniteSets, Bags, TLC

\* ------------------------------------------------------------------------
\* uint32_t arithmetic on bit sets
\* ------------------------------------------------------------------------

Pow2(k) == 2 ^ k

\* TRUE for every v; a loop tests it on the locals left by its first half,
\* which are thereby computed before the second half starts
Computed(v) == v = v

SetMax(S) == CHOOSE m \in S : \A k \in S : k <= m

BitAt(w, p) == IF p \in w THEN 1 ELSE 0

\* the number held by the k bits of w from position lo upwards
RECURSIVE BitsValue(_, _, _)
BitsValue(w, lo, k) == IF k = 0 THEN 0 ELSE BitAt(w, lo) + 2 * BitsValue(w, lo + 1, k - 1)

\* byte k (0 = least significant) of a word held as a bit set
ByteAt(w, k) == BitsValue(w, 8 * k, 8)

\* the bit set of a number x < 2^w, placed at position lo
BitsOf(x, lo, w) == { lo + k : k \in { j \in 0..(w - 1) : (x \div Pow2(j)) % 2 = 1 } }

U32(x) == BitsOf(x, 0, 31)

\* the number a uint32_t holds; only used where it is known to be < 2^24
NatOf(v) == BitsValue(v, 0, 24)

\* an array with its elements computed: the sequence a itself
Stored(a) == a \o << >>

\* a local of the code that is assigned once and then read: F applied to it
Bind(v, F(_)) == F(v)

\* one statement after another: F applied to the locals v left by the first
Then(v, F(_)) == IF Computed(v) THEN F(v) ELSE v

\* for (i = lo; i <= hi; ++i) st = Step(st, i)
RECURSIVE Loop(_, _, _, _)
Loop(Step(_, _), st, lo, hi) ==
    IF lo > hi THEN st
    ELSE IF lo = hi THEN Step(st, lo)
    ELSE Then(Loop(Step, st, lo, (lo + hi) \div 2), LAMBDA half :
             Loop(Step, half, ((lo + hi) \div 2) + 1, hi))

\* the bit sets of the numbers 0..65535: element x + 1 is the set of x
Bits16 == Stored([ x \in 1..65536 |-> { j \in 0..15 : ((x - 1) \div Pow2(j)) % 2 = 1 } ])

\* the number held by the 16 bits of w from position lo upwards: the sum of
\* the weights of its set bits
Limb(w, lo) == BagCardinality([ k \in w \cap (lo..(lo + 15)) |-> Pow2(k - lo) ])

\* addition mod 2^32, carried from the low to the high 16 bits
U32Add(a, b) ==
    Bind(Limb(a, 0) + Limb(b, 0), LAMBDA lo :
        Bits16[(lo % 65536) + 1]
        \cup { k + 16 : k \in Bits16[((Limb(a, 16) + Limb(b, 16) + (lo \div 65536)) % 65536) + 1] })

U32Shr(v, s) == { k - s : k \in { j \in v : j >= s } }

U32Shl(v, s) == { k + s : k \in { j \in v : j + s <= 31 } }

\* four little-endian bytes of a uint32_t
storeU32(v) == << ByteAt(v, 0), ByteAt(v, 1), ByteAt(v, 2), ByteAt(v, 3) >>

\* ------------------------------------------------------------------------
\* Constants and helpers (src/unnamed/part_004)
\* ------------------------------------------------------------------------

MAX_BITS == 32

MAX_VALUES == 256

pad8(x) == (x + 7) \div 8

bitWidth32(x) == IF x = {} THEN 0 ELSE SetMax(x) + 1

maskBits(b) == IF b >= 32 THEN 0..31 ELSE 0..(b - 1)

VBYTE_ESCAPE_UNCOMPRESSED == 255

VBYTE_MARKER_4PLUS == 252

VBYTE_MARKER_3BYTE == 220

VBYTE_MARKER_2BYTE == 156

VBYTE_THRESHOLD_2BYTE == 156

VBYTE_THRESHOLD_3BYTE == 16540

VBYTE_THRESHOLD_4PLUS == 2113692

\* ------------------------------------------------------------------------
\* Variable-byte coding of the exception values (src/unnamed/part_003)
\* ------------------------------------------------------------------------

vbPut32(x) ==
    IF bitWidth32(x) > 24
    THEN << VBYTE_MARKER_4PLUS + 1 >> \o storeU32(x)
    ELSE LET v == NatOf(x) IN
         IF v < VBYTE_THRESHOLD_2BYTE THEN << v >>
         ELSE IF v < VBYTE_THRESHOLD_3BYTE
         THEN LET delta == v - VBYTE_THRESHOLD_2BYTE
              IN  << (VBYTE_MARKER_2BYTE + (delta \div 256)) % 256, delta % 256 >>
         ELSE IF v < VBYTE_THRESHOLD_4PLUS
         THEN LET delta == v - VBYTE_THRESHOLD_3BYTE
              IN  << (VBYTE_MARKER_3BYTE + (delta \div 65536)) % 256,
                     delta % 256, (delta \div 256) % 256 >>
         ELSE << VBYTE_MARKER_4PLUS, ByteAt(x, 0), ByteAt(x, 1), ByteAt(x, 2) >>

\* the bytes vbPut32 appends for vals[lo..hi], in order (the range is
\* halved so that the evaluation depth stays logarithmic)
RECURSIVE vbPutAll(_, _, _)
vbPutAll(vals, lo, hi) ==
    IF lo > hi THEN << >>
    ELSE IF lo = hi THEN vbPut32(vals[lo])
    ELSE LET mid == (lo + hi) \div 2
         IN  vbPutAll(vals, lo, mid) \o vbPutAll(vals, mid + 1, hi)

copyU32ArrayToLe(vals, n) ==
    [ k \in 1..(4 * n) |-> ByteAt(vals[((k - 1) \div 4) + 1], (k - 1) % 4) ]

\* a faulty variant of vbEnc32: escapes when the code is longer than 4n
vbEnc32_NoMargin(vals) ==
    Bind(vbPutAll(vals, 1, Len(vals)), LAMBDA op :
        IF Len(op) > Len(vals) * 4
        THEN << VBYTE_ESCAPE_UNCOMPRESSED >> \o copyU32ArrayToLe(vals, Len(vals))
        ELSE op)

vbEnc32(vals) ==
    Bind(vbPutAll(vals, 1, Len(vals)), LAMBDA op :
        IF Len(op) + 32 > Len(vals) * 4
        THEN << VBYTE_ESCAPE_UNCOMPRESSED >> \o copyU32ArrayToLe(vals, Len(vals))
        ELSE op)

\* ------------------------------------------------------------------------
\* Bit width selection (src/unnamed/part_003)
\* ------------------------------------------------------------------------

OrAll(vals) == UNION { vals[i] : i \in 1..Len(vals) }

\* bit_width_count[w] is element w + 1
bit_width_count(vals) ==
    LET width == Stored([ i \in 1..Len(vals) |-> bitWidth32(vals[i]) ])
    IN  Stored([ k \in 1..(MAX_BITS + 8) |->
                   Cardinality({ i \in 1..Len(vals) : width[i] = k - 1 }) ])

\* vbyte_accumulator points MAX_BITS + 16 elements into its storage:
\* vbyte_accumulator[i] is element AccAt(i) of the storage
AccAt(i) == i + MAX_BITS + 16 + 1

vbyte_accumulator_storage == Stored([ k \in 1..(MAX_BITS * 2 + 64 + 16) |-> 0 ])

update_vbyte_accumulator(acc, count, bits) ==
    LET a1 == [ acc EXCEPT ![AccAt(bits - 7)] = @ + count ]
        a2 == [ a1 EXCEPT ![AccAt(bits - 15)] = @ + count * 2 ]
        a3 == [ a2 EXCEPT ![AccAt(bits - 19)] = @ + count * 3 ]
    IN  [ a3 EXCEPT ![AccAt(bits - 25)] = @ + count * 4 ]

\* a faulty variant of p4BitsStep whose comparisons with min_size are not
\* strict, so that a later candidate of equal size replaces the earlier one
p4BitsStep_LatestWins(n, cnt, max_bits, base_bits, st) ==
    LET patch_bits == max_bits - base_bits
        vbyte_size == pad8(n * base_bits) + 2 + st.exception_count + st.vbyte_size_accumulator
        patching_size == pad8(n * base_bits) + 2 + pad8(n) + pad8(st.exception_count * patch_bits)
        takeP == patching_size <= st.min_size /\ patching_size <= vbyte_size
        takeV == ~takeP /\ vbyte_size <= st.min_size
        s1 == IF takeP
              THEN [st EXCEPT !.min_size = patching_size, !.optimal_base_bits = base_bits,
                              !.use_vbyte_exceptions = 0]
              ELSE IF takeV
              THEN [st EXCEPT !.min_size = vbyte_size, !.optimal_base_bits = base_bits,
                              !.use_vbyte_exceptions = 1]
              ELSE st
    IN  IF base_bits = 0 THEN s1
        ELSE [s1 EXCEPT !.exception_count = @ + cnt[base_bits + 1],
                        !.vbyte_size_accumulator = @ + cnt[base_bits + 1] + s1.acc[AccAt(base_bits)],
                        !.acc = update_vbyte_accumulator(@, cnt[base_bits + 1], base_bits)]

\* one iteration of the top-down scan over base_bits; st carries the locals
p4BitsStep(n, cnt, max_bits, base_bits, st) ==
    LET patch_bits == max_bits - base_bits
        vbyte_size == pad8(n * base_bits) + 2 + st.exception_count + st.vbyte_size_accumulator
        patching_size == pad8(n * base_bits) + 2 + pad8(n) + pad8(st.exception_count * patch_bits)
        takeP == patching_size < st.min_size /\ patching_size <= vbyte_size
        takeV == ~takeP /\ vbyte_size < st.min_size
        s1 == IF takeP
              THEN [st EXCEPT !.min_size = patching_size, !.optimal_base_bits = base_bits,
                              !.use_vbyte_exceptions = 0]
              ELSE IF takeV
              THEN [st EXCEPT !.min_size = vbyte_size, !.optimal_base_bits = base_bits,
                              !.use_vbyte_exceptions = 1]
              ELSE st
    IN  IF base_bits = 0 THEN s1
        ELSE [s1 EXCEPT !.exception_count = @ + cnt[base_bits + 1],
                        !.vbyte_size_accumulator = @ + cnt[base_bits + 1] + s1.acc[AccAt(base_bits)],
                        !.acc = update_vbyte_accumulator(@, cnt[base_bits + 1], base_bits)]

\* the locals before the scan: everything is stored with max_bits bits
p4BitsStart(n, cnt, max_bits) ==
    [ min_size |-> pad8(n * max_bits) + 1,
      optimal_base_bits |-> max_bits,
      use_vbyte_exceptions |-> 0,
      exception_count |-> cnt[max_bits + 1],
      vbyte_size_accumulator |-> cnt[max_bits + 1],
      acc |-> update_vbyte_accumulator(vbyte_accumulator_storage, cnt[max_bits + 1], max_bits) ]

\* a faulty variant of p4BitsOptimal that returns a patch width one bit short
p4BitsOptimal_NarrowPatch(n, cnt, max_bits) ==
    Bind(Loop(LAMBDA st, t : p4BitsStep(n, cnt, max_bits, max_bits - 1 - t, st),
              p4BitsStart(n, cnt, max_bits), 0, max_bits - 1), LAMBDA fin :
        << fin.optimal_base_bits,
           IF fin.use_vbyte_exceptions = 1 THEN MAX_BITS + 1
           ELSE IF max_bits - fin.optimal_base_bits > 1 THEN max_bits - fin.optimal_base_bits - 1
           ELSE max_bits - fin.optimal_base_bits >>)

\* a faulty variant of p4BitsOptimal that keeps the patch width below 32
p4BitsOptimal_Below32(n, cnt, max_bits) ==
    Bind(Loop(LAMBDA st, t : p4BitsStep(n, cnt, max_bits, max_bits - 1 - t, st),
              p4BitsStart(n, cnt, max_bits), 0, max_bits - 1), LAMBDA fin :
        << fin.optimal_base_bits,
           IF fin.use_vbyte_exceptions = 1 THEN MAX_BITS + 1
           ELSE IF max_bits - fin.optimal_base_bits = MAX_BITS THEN MAX_BITS - 1
           ELSE max_bits - fin.optimal_base_bits >>)

\* the scan of base_bits from max_bits - 1 down to 0 and its result <<b, bx>>
p4BitsOptimal(n, cnt, max_bits) ==
    Bind(Loop(LAMBDA st, t : p4BitsStep(n, cnt, max_bits, max_bits - 1 - t, st),
              p4BitsStart(n, cnt, max_bits), 0, max_bits - 1), LAMBDA fin :
        << fin.optimal_base_bits,
           IF fin.use_vbyte_exceptions = 1 THEN MAX_BITS + 1
           ELSE max_bits - fin.optimal_base_bits >>)

\* a faulty variant of p4Bits32 without the early exit for a block of zeros
p4Bits32_ZeroAsConstant(vals) ==
    Bind(bitWidth32(OrAll(vals)), LAMBDA max_bits :
        IF Cardinality({ i \in 1..Len(vals) : vals[i] = vals[1] }) = Len(vals)
        THEN << max_bits, MAX_BITS + 2 >>
        ELSE Bind(bit_width_count(vals), LAMBDA cnt : p4BitsOptimal(Len(vals), cnt, max_bits)))

\* returns <<b, bx>>: bx = 0 simple, 1..32 bitmap patch width, 33 vbyte, 34 constant
p4Bits32(vals) ==
    Bind(bitWidth32(OrAll(vals)), LAMBDA max_bits :
        IF max_bits = 0 THEN << 0, 0 >>
        ELSE IF Cardinality({ i \in 1..Len(vals) : vals[i] = vals[1] }) = Len(vals)
        THEN << max_bits, MAX_BITS + 2 >>
        ELSE Bind(bit_width_count(vals), LAMBDA cnt : p4BitsOptimal(Len(vals), cnt, max_bits)))

writeHeader(b, bx) ==
    IF bx = 0 THEN << b % 256 >>
    ELSE IF bx <= MAX_BITS THEN << (128 + b) % 256, bx % 256 >>
    ELSE << ((IF bx = MAX_BITS + 1 THEN 64 ELSE 192) + b) % 256 >>

\* ------------------------------------------------------------------------
\* Horizontal bit packing (p4_scalar_bitpack_impl.h, src/unnamed/part_008)
\* ------------------------------------------------------------------------

RECURSIVE gcd_u32(_, _)
gcd_u32(a, b) == IF b = 0 THEN a ELSE gcd_u32(b, a % b)

word_count_for(b, n) == (n * b + 63) \div 64

max_words_for_gcd(g) == IF g <= 2 THEN 12 ELSE 16

RECURSIVE HalveUntilFits(_, _)
HalveUntilFits(k, n) == IF k > 1 /\ k > n THEN HalveUntilFits(k \div 2, n) ELSE k

RECURSIVE FirstAlignedBlock(_, _, _, _)
FirstAlignedBlock(b, n, k, max_words) ==
    IF word_count_for(b, k) <= max_words /\ (k * b) % 8 = 0 THEN k
    ELSE IF k = 1 THEN n
    ELSE FirstAlignedBlock(b, n, k \div 2, max_words)

choose_block_size(b, n) ==
    IF n = 0 THEN 0
    ELSE LET g == gcd_u32(64, b)
             k0 == HalveUntilFits(64 \div g, n)
             k == IF k0 > n THEN 1 ELSE k0
         IN  FirstAlignedBlock(b, n, k, max_words_for_gcd(g))

\* a faulty variant of pack_one that drops the bits of an element that do
\* not fit in the word it starts in
pack_one_NoCarry(vals, B, Base, I) ==
    LET sh == (I * B) % 64
    IN  { I * B + j : j \in { q \in vals[Base + I + 1] : sh + q < 64 } }

\* bits that element I of a block (input index Base + I) ORs into the block's
\* words w[]; position p stands for bit p % 64 of w[p \div 64].  The input
\* is not masked: a bit above B that would leave word wi is carried into
\* w[wi + 1] only when the element itself straddles the two words.
pack_one(vals, B, Base, I) ==
    LET sh == (I * B) % 64
    IN  { I * B + j : j \in { q \in vals[Base + I + 1] : sh + q < 64 \/ sh + B > 64 } }

\* a packer that stores the whole 64-bit words of a block
pack_block_WholeWords(vals, B, K, Base) ==
    Bind(UNION { pack_one(vals, B, Base, I) : I \in 0..(K - 1) }, LAMBDA w :
        [ q \in 1..(8 * ((K * B + 63) \div 64)) |-> ByteAt(w, q - 1) ])

\* the first total_bytes bytes of the words of a block of K elements
pack_block(vals, B, K, Base) ==
    Bind(UNION { pack_one(vals, B, Base, I) : I \in 0..(K - 1) }, LAMBDA w :
        [ q \in 1..((K * B + 7) \div 8) |-> ByteAt(w, q - 1) ])

RECURSIVE pack_blocks(_, _, _, _)
pack_blocks(vals, B, N, Base) ==
    IF N = 0 THEN << >>
    ELSE Bind(choose_block_size(B, N), LAMBDA block :
             pack_block(vals, B, block, Base) \o pack_blocks(vals, B, N - block, Base + block))

\* a faulty variant of StoreLow that stores every element twice
StoreLow_Twice(vals, Base, N, bytes) ==
    [ k \in 1..(2 * bytes * N) |->
        ByteAt(vals[Base + ((k - 1) \div (2 * bytes)) + 1], (k - 1) % bytes) ]

\* the low bytes bytes of each of N elements, little-endian
StoreLow(vals, Base, N, bytes) ==
    [ k \in 1..(bytes * N) |-> ByteAt(vals[Base + ((k - 1) \div bytes) + 1], (k - 1) % bytes) ]

\* N elements (1..32) starting at input index Base
pack_n_b(vals, B, N, Base) ==
    IF B \in {32, 16, 8} THEN StoreLow(vals, Base, N, B \div 8)
    ELSE pack_blocks(vals, B, N, Base)

\* the 32-element blocks lo..hi, then (block index n \div 32) the remainder
RECURSIVE bitpack_b(_, _, _, _, _)
bitpack_b(vals, n, B, lo, hi) ==
    IF lo > hi THEN << >>
    ELSE IF lo = hi
    THEN IF lo < n \div 32 THEN pack_n_b(vals, B, 32, 32 * lo)
         ELSE IF n % 32 = 0 THEN << >>
         ELSE pack_n_b(vals, B, n % 32, 32 * lo)
    ELSE LET mid == (lo + hi) \div 2
         IN  bitpack_b(vals, n, B, lo, mid) \o bitpack_b(vals, n, B, mid + 1, hi)

\* bitpack32Scalar(in, n, out, b): the bytes appended to out
bitpack32Scalar(vals, n, b) ==
    IF b = 0 THEN << >>
    ELSE IF b = 32 THEN StoreLow(vals, 0, n, 4)
    ELSE bitpack_b(vals, n, b, 0, n \div 32)

\* ------------------------------------------------------------------------
\* Horizontal encoder (scalar/p4enc32.cpp)
\* ------------------------------------------------------------------------

\* value > base_mask, with base_mask = (1u << b) - 1
AboveMask(value, b) == \E k \in value : k >= b

exception_positions(vals, n, b) == { i \in 0..(n - 1) : AboveMask(vals[i + 1], b) }

\* a faulty variant of Ascending: the positions from the highest down
Ascending_FromTheTop(S, n) == SelectSeq([ i \in 1..n |-> n - i ], LAMBDA p : p \in S)

\* the positions 0..n-1 that satisfy the exception test, in loop order
Ascending(S, n) == SelectSeq([ i \in 1..n |-> i - 1 ], LAMBDA p : p \in S)

\* the exception bitmap, stored as whole 64-bit words of which pad8(n)
\* bytes belong to the block
bitmapBytes(pos, n) == [ q \in 1..pad8(n) |-> ByteAt(pos, q - 1) ]

\* base[]: the low b bits of every value
baseValues(vals, n, b) == Stored([ i \in 1..n |-> vals[i] \cap maskBits(b) ])

\* exceptions[]: the bits above b of the values at the positions pos
exceptionValues(vals, pos, b) == Stored([ k \in 1..Len(pos) |-> U32Shr(vals[pos[k] + 1], b) ])

\* the bytes of the position list
positionBytes(pos) == [ k \in 1..Len(pos) |-> pos[k] % 256 ]

\* a faulty variant of p4Enc32PayloadExceptions whose count byte leaves the
\* last exception out
p4Enc32PayloadExceptions_ShortCount(vals, n, b, bx) ==
    Bind(Ascending(exception_positions(vals, n, b), n), LAMBDA pos :
        IF bx <= MAX_BITS
        THEN bitmapBytes(exception_positions(vals, n, b), n)
             \o bitpack32Scalar(exceptionValues(vals, pos, b), Len(pos), bx)
             \o bitpack32Scalar(baseValues(vals, n, b), n, b)
        ELSE << (Len(pos) - 1) % 256 >>
             \o bitpack32Scalar(baseValues(vals, n, b), n, b)
             \o vbEnc32(exceptionValues(vals, pos, b))
             \o positionBytes(pos))

p4Enc32PayloadExceptions(vals, n, b, bx) ==
    Bind(Ascending(exception_positions(vals, n, b), n), LAMBDA pos :
        IF bx <= MAX_BITS
        THEN bitmapBytes(exception_positions(vals, n, b), n)
             \o bitpack32Scalar(exceptionValues(vals, pos, b), Len(pos), bx)
             \o bitpack32Scalar(baseValues(vals, n, b), n, b)
        ELSE << Len(pos) % 256 >>
             \o bitpack32Scalar(baseValues(vals, n, b), n, b)
             \o vbEnc32(exceptionValues(vals, pos, b))
             \o positionBytes(pos))

\* a faulty variant of p4Enc32Payload whose constant path stores the whole word
p4Enc32Payload_WholeWord(vals, n, b, bx) ==
    IF b = 0 /\ bx = 0 THEN << >>
    ELSE IF bx = 0 THEN bitpack32Scalar(vals, n, b)
    ELSE IF bx = MAX_BITS + 2 THEN storeU32(vals[1])
    ELSE p4Enc32PayloadExceptions(vals, n, b, bx)

p4Enc32Payload(vals, n, b, bx) ==
    IF b = 0 /\ bx = 0 THEN << >>
    ELSE IF bx = 0 THEN bitpack32Scalar(vals, n, b)
    ELSE IF bx = MAX_BITS + 2
    THEN IF b = 32 THEN storeU32(vals[1])
         ELSE [ i \in 1..((b + 7) \div 8) |-> ByteAt(vals[1] \cap maskBits(b), i - 1) ]
    ELSE p4Enc32PayloadExceptions(vals, n, b, bx)

\* the bytes written to out, with the locals base_bits and exception_bits
p4Enc32(vals, n) ==
    Bind(p4Bits32(vals), LAMBDA h :
        [ out |-> writeHeader(h[1], h[2]) \o p4Enc32Payload(vals, n, h[1], h[2]),
          b |-> h[1], bx |-> h[2] ])

\* ------------------------------------------------------------------------
\* Horizontal bit unpacking (src/unnamed/part_008)
\*
\* A decoder reads a memory image mem (a sequence of bytes) from a byte
\* offset ip (0 = first byte) and returns the outputs with the offset one
\* past the last byte it consumed.
\* ------------------------------------------------------------------------

loadU8(mem, ip) == BitsOf(mem[ip + 1], 0, 8)

loadU16(mem, ip) == BitsOf(mem[ip + 1], 0, 8) \cup BitsOf(mem[ip + 2], 8, 8)

loadU24(mem, ip) == loadU16(mem, ip) \cup BitsOf(mem[ip + 3], 16, 8)

loadU32(mem, ip) == loadU24(mem, ip) \cup BitsOf(mem[ip + 4], 24, 8)

\* the words w[] of a block, loaded from total_bytes bytes: position p
\* stands for bit p % 64 of w[p \div 64]
load_words(mem, ip, total_bytes) ==
    UNION { BitsOf(mem[ip + q], 8 * (q - 1), 8) : q \in 1..total_bytes }

\* element I of a block; st.acc is the running delta1 sum
unpack_emit_one(Delta1, w, B, Base, I, st) ==
    Bind({ j \in 0..(B - 1) : (I * B + j) \in w }, LAMBDA v :
        IF Delta1
        THEN Bind(U32Add(st.acc, v), LAMBDA acc :
                 [ out |-> Append(st.out, U32Add(acc, U32(Base + I + 1))), acc |-> acc ])
        ELSE [ out |-> Append(st.out, v), acc |-> st.acc ])

unpack_block(Delta1, mem, ip, B, K, Base, acc) ==
    Bind(load_words(mem, ip, (K * B + 7) \div 8), LAMBDA w :
    Bind(Loop(LAMBDA st, I : unpack_emit_one(Delta1, w, B, Base, I, st),
              [ out |-> << >>, acc |-> acc ], 0, K - 1), LAMBDA r :
        [ out |-> r.out, acc |-> r.acc, ip |-> ip + ((K * B + 7) \div 8) ]))

RECURSIVE unpack_blocks(_, _, _, _, _, _, _)
unpack_blocks(Delta1, mem, ip, B, N, Base, acc) ==
    IF N = 0 THEN [ out |-> << >>, ip |-> ip ]
    ELSE Bind(choose_block_size(B, N), LAMBDA block :
         Bind(unpack_block(Delta1, mem, ip, B, block, Base, acc), LAMBDA r :
         Bind(unpack_blocks(Delta1, mem, r.ip, B, N - block, Base + block, r.acc), LAMBDA rest :
             [ out |-> r.out \o rest.out, ip |-> rest.ip ])))

\* the B = 32, 16 and 8 paths: element i is one load of bytes bytes
unpack_load_one(Delta1, mem, bytes, i, st) ==
    Bind(IF bytes = 4 THEN loadU32(mem, st.ip)
         ELSE IF bytes = 2 THEN loadU16(mem, st.ip) ELSE loadU8(mem, st.ip), LAMBDA v :
        IF Delta1
        THEN Bind(U32Add(st.start, v), LAMBDA s1 :
                 [ out |-> Append(st.out, U32Add(s1, U32(i + 1))), ip |-> st.ip + bytes, start |-> s1 ])
        ELSE [ out |-> Append(st.out, v), ip |-> st.ip + bytes, start |-> st.start ])

unpack_n_b(Delta1, mem, ip, B, N, start) ==
    IF B \in {32, 16, 8}
    THEN Loop(LAMBDA st, i : unpack_load_one(Delta1, mem, B \div 8, i, st),
              [ out |-> << >>, ip |-> ip, start |-> start ], 0, N - 1)
    ELSE unpack_blocks(Delta1, mem, ip, B, N, 0, start)

\* a faulty variant of bitunpack_b that starts every 32-element block from
\* the start value of the call
bitunpack_b_NoCarry(Delta1, mem, n, B, k, st) ==
    Bind(IF k < n \div 32 THEN 32 ELSE n % 32, LAMBDA N :
        IF N = 0 THEN st
        ELSE Bind(unpack_n_b(Delta1, mem, st.ip, B, N, st.start), LAMBDA r :
                 [ out |-> st.out \o r.out, ip |-> r.ip, start |-> st.start ]))

\* block k of bitunpack_b: a 32-element block (after which start = out[31])
\* or, at block index n \div 32, the remaining n % 32 elements
bitunpack_b(Delta1, mem, n, B, k, st) ==
    Bind(IF k < n \div 32 THEN 32 ELSE n % 32, LAMBDA N :
        IF N = 0 THEN st
        ELSE Bind(unpack_n_b(Delta1, mem, st.ip, B, N, st.start), LAMBDA r :
                 [ out |-> st.out \o r.out, ip |-> r.ip,
                   start |-> IF Delta1 /\ N = 32 THEN r.out[32] ELSE st.start ]))

\* Bitunpack32ScalarImpl<Delta1>::dispatch; table[] has entries 0..32, so a
\* width above 32 indexes past its end (field ub)
Bitunpack32ScalarImpl(Delta1, mem, ip, n, start, b) ==
    IF b = 0
    THEN [ out |-> [ i \in 1..n |-> IF Delta1 THEN U32Add(start, U32(i)) ELSE {} ],
           ip |-> ip, ub |-> FALSE ]
    ELSE IF b > 32 THEN [ out |-> << >>, ip |-> ip, ub |-> TRUE ]
    ELSE Bind(Loop(LAMBDA st, k : bitunpack_b(Delta1, mem, n, b, k, st),
                   [ out |-> << >>, ip |-> ip, start |-> start ], 0, n \div 32), LAMBDA r :
             [ out |-> r.out, ip |-> r.ip, ub |-> FALSE ])

bitunpack32Scalar(mem, ip, n, b) == Bitunpack32ScalarImpl(FALSE, mem, ip, n, {}, b)

bitunpackd1_32Scalar(mem, ip, n, start, b) == Bitunpack32ScalarImpl(TRUE, mem, ip, n, start, b)

\* ------------------------------------------------------------------------
\* Variable-byte decoding (src/unnamed/part_004, src/unnamed/part_003)
\* ------------------------------------------------------------------------

\* a faulty variant of vbGet32Inline that does not mask the value that
\* follows the marker 0xFC to 24 bits
vbGet32Inline_NoMask(mem, ip) ==
    LET marker == mem[ip + 1]
    IN  IF marker < VBYTE_MARKER_2BYTE THEN [ x |-> U32(marker), ip |-> ip + 1 ]
        ELSE IF marker < VBYTE_MARKER_3BYTE
        THEN [ x |-> U32((marker - VBYTE_MARKER_2BYTE) * 256 + mem[ip + 2] + VBYTE_THRESHOLD_2BYTE),
               ip |-> ip + 2 ]
        ELSE IF marker < VBYTE_MARKER_4PLUS
        THEN [ x |-> U32(mem[ip + 2] + 256 * mem[ip + 3]
                         + (marker - VBYTE_MARKER_3BYTE) * 65536 + VBYTE_THRESHOLD_3BYTE),
               ip |-> ip + 3 ]
        ELSE IF marker = VBYTE_MARKER_4PLUS
        THEN [ x |-> loadU32(mem, ip + 1), ip |-> ip + 4 ]
        ELSE [ x |-> loadU32(mem, ip + 1), ip |-> ip + 5 ]

vbGet32Inline(mem, ip) ==
    LET marker == mem[ip + 1]
    IN  IF marker < VBYTE_MARKER_2BYTE THEN [ x |-> U32(marker), ip |-> ip + 1 ]
        ELSE IF marker < VBYTE_MARKER_3BYTE
        THEN [ x |-> U32((marker - VBYTE_MARKER_2BYTE) * 256 + mem[ip + 2] + VBYTE_THRESHOLD_2BYTE),
               ip |-> ip + 2 ]
        ELSE IF marker < VBYTE_MARKER_4PLUS
        THEN [ x |-> U32(mem[ip + 2] + 256 * mem[ip + 3]
                         + (marker - VBYTE_MARKER_3BYTE) * 65536 + VBYTE_THRESHOLD_3BYTE),
               ip |-> ip + 3 ]
        ELSE IF marker = VBYTE_MARKER_4PLUS
        THEN [ x |-> loadU24(mem, ip + 1), ip |-> ip + 4 ]
        ELSE [ x |-> loadU32(mem, ip + 1), ip |-> ip + 5 ]

\* one iteration of the decoding loop
vbGet32(mem, st) ==
    Bind(vbGet32Inline(mem, st.ip), LAMBDA r : [ out |-> Append(st.out, r.x), ip |-> r.ip ])

vbDec32(mem, ip, n) ==
    IF mem[ip + 1] = VBYTE_ESCAPE_UNCOMPRESSED
    THEN [ out |-> [ i \in 1..n |-> loadU32(mem, ip + 1 + 4 * (i - 1)) ], ip |-> ip + 1 + 4 * n ]
    ELSE Loop(LAMBDA st, i : vbGet32(mem, st), [ out |-> << >>, ip |-> ip ], 1, n)

\* ------------------------------------------------------------------------
\* Horizontal decoder (scalar/p4d1dec32.cpp)
\* ------------------------------------------------------------------------

\* a faulty variant of delta1Loop: the running sum without the + (i + 1)
delta1Loop_NoIncrement(vals, start) ==
    Loop(LAMBDA st, i : Bind(U32Add(st.acc, vals[i]), LAMBDA s1 :
                            [ out |-> Append(st.out, s1), acc |-> s1 ]),
         [ out |-> << >>, acc |-> start ], 1, Len(vals)).out

\* for every i: out[i] = (start += out[i]) + (i + 1)
delta1Loop(vals, start) ==
    Loop(LAMBDA st, i : Bind(U32Add(st.acc, vals[i]), LAMBDA s1 :
                            [ out |-> Append(st.out, U32Add(s1, U32(i))), acc |-> s1 ]),
         [ out |-> << >>, acc |-> start ], 1, Len(vals)).out

\* the exception bitmap: the positions below n whose bit is set
loadBitmap(mem, ip, n) == { i \in 0..(n - 1) : (mem[ip + (i \div 8) + 1] \div Pow2(i % 8)) % 2 = 1 }

\* a faulty merge: the exception is ORed in without the shift by b
mergeBitmap_Unshifted(base, bitmap, ex, b) ==
    [ i \in 1..Len(base) |->
        IF (i - 1) \in bitmap
        THEN base[i] \cup ex[Cardinality(bitmap \cap (0..(i - 2))) + 1]
        ELSE base[i] ]

\* OR the k-th exception, shifted above the base bits, into the k-th
\* position of the bitmap in ascending order
mergeBitmap(base, bitmap, ex, b) ==
    [ i \in 1..Len(base) |->
        IF (i - 1) \in bitmap
        THEN base[i] \cup U32Shl(ex[Cardinality(bitmap \cap (0..(i - 2))) + 1], b)
        ELSE base[i] ]

\* out[ip[k]] |= ex[k] << b for every k: each output collects the
\* exceptions whose position byte names it
mergePositions(vals, mem, pos, ex, b) ==
    [ i \in 1..Len(vals) |->
        vals[i] \cup UNION { U32Shl(ex[k], b) : k \in { q \in 1..Len(ex) : mem[pos + q] = i - 1 } } ]

p4D1DecPayloadExceptions(mem, ip, n, start, b, bx) ==
    Bind(loadBitmap(mem, ip, n), LAMBDA bitmap :
    Bind(bitunpack32Scalar(mem, ip + pad8(n), Cardinality(bitmap), bx), LAMBDA ex :
    Bind(bitunpack32Scalar(mem, ex.ip, n, b), LAMBDA base :
        IF ex.ub \/ base.ub THEN [ out |-> << >>, ip |-> ip, ub |-> TRUE ]
        ELSE [ out |-> delta1Loop(mergeBitmap(base.out, bitmap, ex.out, b), start),
               ip |-> base.ip, ub |-> FALSE ])))

\* the constant path: the value is loaded with as many bytes as were
\* stored; the switch on the byte count has no case above 4
\* a faulty variant of the constant path: out[i] = start + 1 + (i + 1) * value
p4D1Dec32Constant_OneIncrement(mem, n, start, b) ==
    Bind((b + 7) \div 8, LAMBDA bytes_stored :
        IF bytes_stored \notin 1..4 THEN [ out |-> << >>, ip |-> 1, ub |-> TRUE ]
        ELSE Bind(loadU32(mem, 1) \cap maskBits(b), LAMBDA constant_value :
                 [ out |-> Loop(LAMBDA st, i : Append(st, U32Add(st[i], constant_value)),
                                << U32Add(U32Add(start, constant_value), U32(1)) >>, 1, n - 1),
                   ip |-> 1 + bytes_stored, ub |-> FALSE ]))

p4D1Dec32Constant(mem, n, start, b) ==
    Bind((b + 7) \div 8, LAMBDA bytes_stored :
        IF bytes_stored \notin 1..4 THEN [ out |-> << >>, ip |-> 1, ub |-> TRUE ]
        ELSE Bind((IF bytes_stored = 1 THEN loadU8(mem, 1)
                   ELSE IF bytes_stored = 2 THEN loadU16(mem, 1)
                   ELSE IF bytes_stored = 3 THEN loadU24(mem, 1)
                   ELSE loadU32(mem, 1)) \cap maskBits(b), LAMBDA constant_value :
                 [ out |-> delta1Loop([ i \in 1..n |-> constant_value ], start),
                   ip |-> 1 + bytes_stored, ub |-> FALSE ]))

\* the variable-byte path: count byte, base bits, exception values, positions
p4D1Dec32Vbyte(mem, n, start, b) ==
    Bind(bitunpack32Scalar(mem, 2, n, b), LAMBDA base :
        IF base.ub THEN [ out |-> << >>, ip |-> 2, ub |-> TRUE ]
        ELSE Bind(vbDec32(mem, base.ip, mem[2]), LAMBDA ex :
                 [ out |-> delta1Loop(mergePositions(base.out, mem, ex.ip, ex.out, b), start),
                   ip |-> ex.ip + mem[2], ub |-> FALSE ]))

p4D1Dec32(mem, n, start) ==
    Bind(mem[1], LAMBDA base_bits :
        IF base_bits < 64 THEN bitunpackd1_32Scalar(mem, 1, n, start, base_bits)
        ELSE IF base_bits >= 128 /\ base_bits < 192
        THEN IF mem[2] = 0 THEN bitunpackd1_32Scalar(mem, 2, n, start, base_bits % 128)
             ELSE p4D1DecPayloadExceptions(mem, 2, n, start, base_bits % 128, mem[2])
        ELSE IF base_bits >= 192 THEN p4D1Dec32Constant(mem, n, start, base_bits % 64)
        ELSE p4D1Dec32Vbyte(mem, n, start, base_bits % 64))

\* ------------------------------------------------------------------------
\* Vertical bit packing, scalar (src/unnamed/part_005,
\* scalar/bitpack256v32_scalar.cpp).  The two files differ in the lane count
\* only: L lanes, 32 groups of L consecutive values, value g * L + lane
\* travelling through lane `lane'.  A vector is the sequence of its L lanes.
\* ------------------------------------------------------------------------

V128_LANE_COUNT == 4

V256_LANE_COUNT == 8

V128_GROUP_COUNT == 32

\* L words loaded from mem at offset ip, lane 0 first
loadLanes(mem, ip, L) == Stored([ lane \in 1..L |-> loadU32(mem, ip + 4 * (lane - 1)) ])

\* group g of the packing loop; st carries ov[], shift and the bytes written
bitpackVScalarGroup(L, vals, b, g, st) ==
    Bind(Stored([ lane \in 1..L |-> vals[g * L + lane] \cap maskBits(b) ]), LAMBDA iv :
    Bind(IF st.shift = 0 THEN iv
         ELSE Stored([ lane \in 1..L |-> st.ov[lane] \cup U32Shl(iv[lane], st.shift) ]), LAMBDA ov :
        IF st.shift + b >= 32
        THEN [ out |-> st.out \o copyU32ArrayToLe(ov, L),
               shift |-> st.shift + b - 32,
               ov |-> Stored([ lane \in 1..L |->
                          IF st.shift + b - 32 > 0
                          THEN U32Shr(iv[lane], b - (st.shift + b - 32)) ELSE {} ]) ]
        ELSE [ out |-> st.out, shift |-> st.shift + b, ov |-> ov ]))

\* a faulty variant of bitpackVScalar that always stores the accumulator
\* after the last group
bitpackVScalar_TrailingWord(L, vals, b) ==
    IF b = 0 THEN << >>
    ELSE IF b = 32 THEN copyU32ArrayToLe(vals, V128_GROUP_COUNT * L)
    ELSE Bind(Loop(LAMBDA st, g : bitpackVScalarGroup(L, vals, b, g, st),
                   [ out |-> << >>, shift |-> 0, ov |-> [ lane \in 1..L |-> {} ] ],
                   0, V128_GROUP_COUNT - 1), LAMBDA r :
             r.out \o copyU32ArrayToLe(r.ov, L))

\* the bytes appended to out for the 32 * L values vals
bitpackVScalar(L, vals, b) ==
    IF b = 0 THEN << >>
    ELSE IF b = 32 THEN copyU32ArrayToLe(vals, V128_GROUP_COUNT * L)
    ELSE Bind(Loop(LAMBDA st, g : bitpackVScalarGroup(L, vals, b, g, st),
                   [ out |-> << >>, shift |-> 0, ov |-> [ lane \in 1..L |-> {} ] ],
                   0, V128_GROUP_COUNT - 1), LAMBDA r :
             IF r.shift > 0 THEN r.out \o copyU32ArrayToLe(r.ov, L) ELSE r.out)

bitpack128v32Scalar(vals, b) == bitpackVScalar(V128_LANE_COUNT, vals, b)

bitpack256v32Scalar(vals, b) == bitpackVScalar(V256_LANE_COUNT, vals, b)

\* group g of the unpacking loop; st carries iv[], shift, inp and out[]
bitunpackVScalarGroup(L, mem, b, st) ==
    Bind(IF st.shift = 0 THEN loadLanes(mem, st.inp, L) ELSE st.iv, LAMBDA iv :
    Bind(IF st.shift = 0 THEN st.inp + 4 * L ELSE st.inp, LAMBDA inp :
    Bind(Stored([ lane \in 1..L |-> U32Shr(iv[lane], st.shift) \cap maskBits(b) ]), LAMBDA ov :
        IF st.shift + b >= 32 /\ st.shift + b - 32 > 0
        THEN Bind(loadLanes(mem, inp, L), LAMBDA nx :
                 [ out |-> st.out \o [ lane \in 1..L |->
                             ov[lane] \cup (U32Shl(nx[lane], b - (st.shift + b - 32)) \cap maskBits(b)) ],
                   shift |-> st.shift + b - 32, inp |-> inp + 4 * L, iv |-> nx ])
        ELSE [ out |-> st.out \o ov, shift |-> (st.shift + b) % 32, inp |-> inp, iv |-> iv ])))

\* 32 * L values unpacked from mem at offset ip; mask = (1u << b) - 1u is
\* a shift by the word size or more when b > 32 (field ub)
bitunpackVScalar(L, mem, ip, b) ==
    IF b = 0 THEN [ out |-> [ i \in 1..(V128_GROUP_COUNT * L) |-> {} ], ip |-> ip, ub |-> FALSE ]
    ELSE IF b = 32
    THEN [ out |-> [ i \in 1..(V128_GROUP_COUNT * L) |-> loadU32(mem, ip + 4 * (i - 1)) ],
           ip |-> ip + 4 * V128_GROUP_COUNT * L, ub |-> FALSE ]
    ELSE IF b > 32 THEN [ out |-> << >>, ip |-> ip, ub |-> TRUE ]
    ELSE Bind(Loop(LAMBDA st, g : bitunpackVScalarGroup(L, mem, b, st),
                   [ out |-> << >>, shift |-> 0, inp |-> ip, iv |-> [ lane \in 1..L |-> {} ] ],
                   0, V128_GROUP_COUNT - 1), LAMBDA r :
             [ out |-> r.out, ip |-> ip + ((V128_GROUP_COUNT * L * b + 7) \div 8), ub |-> FALSE ])

bitunpack128v32Scalar(mem, ip, b) == bitunpackVScalar(V128_LANE_COUNT, mem, ip, b)

\* ------------------------------------------------------------------------
\* Bit width selection for blocks of 128 values (src/unnamed/part_006,
\* simd/p4bits128_simd.h).  The two files differ in phase 1 only.
\* ------------------------------------------------------------------------

\* a faulty variant of p4Bits128Step that never selects variable-byte patches
p4Bits128Step_BitmapOnly(n, cnt, bx, ui, st) ==
    Bind(pad8(n * ui) + 2 + pad8(n) + pad8(st.x * (bx - ui)), LAMBDA l :
    Bind(IF l < st.ml THEN [ st EXCEPT !.ml = l, !.b = ui, !.fx = 0 ] ELSE st, LAMBDA s1 :
        [ s1 EXCEPT !.x = @ + cnt[ui + 1],
                    !.vv = @ + cnt[ui + 1] + st.vb[AccAt(ui)],
                    !.vb = update_vbyte_accumulator(@, cnt[ui + 1], ui) ]))

\* a faulty variant of p4Bits128Step whose comparisons with ml are not strict
p4Bits128Step_LatestWins(n, cnt, bx, ui, st) ==
    Bind(pad8(n * ui) + 2 + st.x + st.vv, LAMBDA v :
    Bind(pad8(n * ui) + 2 + pad8(n) + pad8(st.x * (bx - ui)), LAMBDA l :
    Bind(IF l <= st.ml THEN [ st EXCEPT !.ml = l, !.b = ui, !.fx = 0 ] ELSE st, LAMBDA s1 :
    Bind(IF v < s1.ml THEN [ s1 EXCEPT !.ml = v, !.b = ui, !.fx = 1 ] ELSE s1, LAMBDA s2 :
        [ s2 EXCEPT !.x = @ + cnt[ui + 1],
                    !.vv = @ + cnt[ui + 1] + st.vb[AccAt(ui)],
                    !.vb = update_vbyte_accumulator(@, cnt[ui + 1], ui) ]))))

\* one iteration of the phase 3 loop at base width ui; st carries the locals
p4Bits128Step(n, cnt, bx, ui, st) ==
    Bind(pad8(n * ui) + 2 + st.x + st.vv, LAMBDA v :
    Bind(pad8(n * ui) + 2 + pad8(n) + pad8(st.x * (bx - ui)), LAMBDA l :
    Bind(IF l < st.ml THEN [ st EXCEPT !.ml = l, !.b = ui, !.fx = 0 ] ELSE st, LAMBDA s1 :
    Bind(IF v < s1.ml THEN [ s1 EXCEPT !.ml = v, !.b = ui, !.fx = 1 ] ELSE s1, LAMBDA s2 :
        [ s2 EXCEPT !.x = @ + cnt[ui + 1],
                    !.vv = @ + cnt[ui + 1] + st.vb[AccAt(ui)],
                    !.vb = update_vbyte_accumulator(@, cnt[ui + 1], ui) ]))))

\* phases 2 and 3, entered with the OR u of the values and the number eq of
\* values equal to the first; returns <<b, bx>>
p4Bits128Select(vals, u, eq) ==
    Bind(bitWidth32(u), LAMBDA b :
        IF eq = Len(vals) /\ vals[1] # {} THEN << b, MAX_BITS + 2 >>
        ELSE IF b = 0 THEN << 0, 0 >>
        ELSE Bind(bit_width_count(vals), LAMBDA cnt :
             IF cnt[b + 1] = 0 THEN << b, 0 >>
             ELSE Bind(Loop(LAMBDA st, t : p4Bits128Step(Len(vals), cnt, b, b - 1 - t, st),
                            [ ml |-> pad8(Len(vals) * b) + 1, b |-> b, fx |-> 0,
                              x |-> cnt[b + 1], vv |-> cnt[b + 1],
                              vb |-> update_vbyte_accumulator(vbyte_accumulator_storage,
                                                              cnt[b + 1], b) ],
                            0, b - 1), LAMBDA fin :
                      << fin.b, IF fin.fx = 1 THEN MAX_BITS + 1 ELSE b - fin.b >>)))

scalar_p4Bits128(vals) ==
    p4Bits128Select(vals, OrAll(vals), Cardinality({ i \in 1..Len(vals) : vals[i] = vals[1] }))

\* phase 1 with one OR accumulator and one counter per lane, reduced
\* horizontally after the loop
simd_p4Bits128(vals) ==
    p4Bits128Select(vals,
        UNION { UNION { vals[i] : i \in { j \in 1..Len(vals) : j % 4 = k } } : k \in 0..3 },
        Cardinality({ i \in { j \in 1..Len(vals) : j % 4 = 0 } : vals[i] = vals[1] })
        + Cardinality({ i \in { j \in 1..Len(vals) : j % 4 = 1 } : vals[i] = vals[1] })
        + Cardinality({ i \in { j \in 1..Len(vals) : j % 4 = 2 } : vals[i] = vals[1] })
        + Cardinality({ i \in { j \in 1..Len(vals) : j % 4 = 3 } : vals[i] = vals[1] }))

\* ------------------------------------------------------------------------
\* Vertical encoders, scalar (scalar/p4enc128v32_scalar.cpp,
\* src/unnamed/part_007).  The two files differ in the packer they
\* call (L lanes) and in the analyzer of the entry point.
\* ------------------------------------------------------------------------

\* base[MAX_VALUES + 32]: the low b bits of the n values, zero after them
paddedBase(vals, n, b) ==
    Stored([ i \in 1..(MAX_VALUES + 32) |-> IF i <= n THEN vals[i] \cap maskBits(b) ELSE {} ])

scalar_p4EncVPayloadExceptions(L, vals, n, b, bx) ==
    Bind(Ascending(exception_positions(vals, n, b), n), LAMBDA pos :
        IF bx <= MAX_BITS
        THEN bitmapBytes(exception_positions(vals, n, b), n)
             \o bitpack32Scalar(exceptionValues(vals, pos, b), Len(pos), bx)
             \o bitpackVScalar(L, paddedBase(vals, n, b), b)
        ELSE << Len(pos) % 256 >>
             \o bitpackVScalar(L, paddedBase(vals, n, b), b)
             \o vbEnc32(exceptionValues(vals, pos, b))
             \o positionBytes(pos))

\* the constant path stores in[0] whole and keeps (b + 7) / 8 bytes of it
scalar_p4EncVPayload(L, vals, n, b, bx) ==
    IF bx = 0 THEN bitpackVScalar(L, vals, b)
    ELSE IF bx = MAX_BITS + 2 THEN SubSeq(storeU32(vals[1]), 1, (b + 7) \div 8)
    ELSE scalar_p4EncVPayloadExceptions(L, vals, n, b, bx)

scalar_p4Enc128v32(vals, n) ==
    Bind(IF n = 128 THEN scalar_p4Bits128(vals) ELSE p4Bits32(vals), LAMBDA h :
        [ out |-> writeHeader(h[1], h[2]) \o scalar_p4EncVPayload(V128_LANE_COUNT, vals, n, h[1], h[2]),
          b |-> h[1], bx |-> h[2] ])

scalar_p4Enc256v32(vals, n) ==
    Bind(p4Bits32(vals), LAMBDA h :
        [ out |-> writeHeader(h[1], h[2]) \o scalar_p4EncVPayload(V256_LANE_COUNT, vals, n, h[1], h[2]),
          b |-> h[1], bx |-> h[2] ])

\* ------------------------------------------------------------------------
\* Vertical decoder, 4 lanes, scalar (scalar/p4d1dec128v32_scalar.cpp)
\* ------------------------------------------------------------------------

\* acc += out[i] + 1; out[i] = acc for the first n elements of out[]
applyDelta1(vals, n, start) ==
    Loop(LAMBDA st, i : Bind(U32Add(st.acc, U32Add(vals[i], {0})), LAMBDA acc :
                            [ out |-> Append(st.out, acc), acc |-> acc ]),
         [ out |-> << >>, acc |-> start ], 1, n).out \o SubSeq(vals, n + 1, Len(vals))

scalar_p4D1Dec128PayloadBitmap(mem, ip, n, start, b, bx) ==
    Bind(loadBitmap(mem, ip, n), LAMBDA bitmap :
    Bind(bitunpack32Scalar(mem, ip + pad8(n), Cardinality(bitmap), bx), LAMBDA ex :
    Bind(bitunpack128v32Scalar(mem, ex.ip, b), LAMBDA base :
        IF ex.ub \/ base.ub THEN [ out |-> << >>, ip |-> ip, ub |-> TRUE ]
        ELSE [ out |-> applyDelta1(mergeBitmap(base.out, bitmap, ex.out, b), n, start),
               ip |-> base.ip, ub |-> FALSE ])))

\* b is the header byte with the flag 0x40 clear
scalar_p4D1Dec128Payload(mem, ip, n, start, b, bx) ==
    IF b >= 128 /\ bx # 0 THEN scalar_p4D1Dec128PayloadBitmap(mem, ip, n, start, b % 128, bx)
    ELSE Bind(bitunpack128v32Scalar(mem, ip, b % 128), LAMBDA base :
             IF base.ub THEN base
             ELSE [ out |-> applyDelta1(base.out, n, start), ip |-> base.ip, ub |-> FALSE ])

scalar_p4D1Dec128v32(mem, n, start) ==
    Bind(mem[1], LAMBDA b :
        IF b >= 192
        THEN Bind(IF b % 64 < MAX_BITS THEN loadU32(mem, 1) \cap maskBits(b % 64)
                  ELSE loadU32(mem, 1), LAMBDA value :
                 [ out |-> applyDelta1([ i \in 1..n |-> value ], n, start),
                   ip |-> 1 + (((b % 64) + 7) \div 8), ub |-> FALSE ])
        ELSE IF (b \div 64) % 2 = 0
        THEN scalar_p4D1Dec128Payload(mem, IF b >= 128 THEN 2 ELSE 1, n, start, b,
                                      IF b >= 128 THEN mem[2] ELSE 0)
        ELSE Bind(bitunpack128v32Scalar(mem, 2, b % 64), LAMBDA base :
                 IF base.ub THEN base
                 ELSE Bind(vbDec32(mem, base.ip, mem[2]), LAMBDA ex :
                          [ out |-> applyDelta1(mergePositions(base.out, mem, ex.ip, ex.out, b % 64),
                                                n, start),
                            ip |-> ex.ip + mem[2], ub |-> FALSE ])))

\* ------------------------------------------------------------------------
\* Vertical bit packing, SSE (src/unnamed/part_001)
\* ------------------------------------------------------------------------

\* group g of bitpack128v32_general: only the first of the four groups of an
\* iteration assigns ov when shift is 0, the others always OR into it
bitpack128v32_general_group(vals, b, g, st) ==
    Bind(Stored([ lane \in 1..4 |-> vals[g * 4 + lane] \cap maskBits(b) ]), LAMBDA iv :
    Bind(IF g % 4 = 0 /\ st.shift = 0 THEN iv
         ELSE Stored([ lane \in 1..4 |-> st.ov[lane] \cup U32Shl(iv[lane], st.shift) ]), LAMBDA ov :
        IF st.shift + b >= 32
        THEN [ out |-> st.out \o copyU32ArrayToLe(ov, 4),
               shift |-> st.shift + b - 32,
               ov |-> Stored([ lane \in 1..4 |->
                          IF st.shift + b - 32 > 0
                          THEN U32Shr(iv[lane], b - (st.shift + b - 32)) ELSE {} ]) ]
        ELSE [ out |-> st.out, shift |-> st.shift + b, ov |-> ov ]))

\* the bytes between out and the pointer returned, out + (128 * b + 7) / 8
bitpack128v32_general(vals, b) ==
    Bind(Loop(LAMBDA st, g : bitpack128v32_general_group(vals, b, g, st),
              [ out |-> << >>, shift |-> 0, ov |-> [ lane \in 1..4 |-> {} ] ], 0, 31), LAMBDA r :
        SubSeq(IF r.shift > 0 THEN r.out \o copyU32ArrayToLe(r.ov, 4) ELSE r.out,
               1, (128 * b + 7) \div 8))

\* a faulty variant of the specialised packers that takes the groups of an
\* output vector b apart instead of consecutive ones
bitpack128v32_bN_Strided(vals, b) ==
    copyU32ArrayToLe([ i \in 1..(4 * b) |->
        UNION { U32Shl(vals[(((i - 1) \div 4) + k * b) * 4 + ((i - 1) % 4) + 1]
                       \cap maskBits(b), k * b) : k \in 0..((32 \div b) - 1) } ], 4 * b)

\* bitpack128v32_b1, _b2, _b4, _b8, _b16: output vector w is the OR of the
\* 32 / b groups w * (32 / b) + k, each masked and shifted left by k * b
bitpack128v32_bN(vals, b) ==
    copyU32ArrayToLe([ i \in 1..(4 * b) |->
        UNION { U32Shl(vals[(((i - 1) \div 4) * (32 \div b) + k) * 4 + ((i - 1) % 4) + 1]
                       \cap maskBits(b), k * b) : k \in 0..((32 \div b) - 1) } ], 4 * b)

simd_bitpack128v32(vals, b) ==
    IF b = 0 THEN << >>
    ELSE IF b = 32 THEN copyU32ArrayToLe(vals, 128)
    ELSE IF b \in {1, 2, 4, 8, 16} THEN bitpack128v32_bN(vals, b)
    ELSE bitpack128v32_general(vals, b)

\* ------------------------------------------------------------------------
\* Vertical encoder, SSE (simd/p4d1dec256v32.cpp, lines 228-348)
\* ------------------------------------------------------------------------

\* the exceptions are the values with a bit set outside msk, collected four
\* values at a time in ascending order; the bitmap is always 16 bytes
simd_p4Enc128PayloadExceptions(vals, n, b, bx) ==
    Bind({ i \in 0..(n - 1) : vals[i + 1] \ maskBits(b) # {} }, LAMBDA bitmap :
    Bind(Ascending(bitmap, n), LAMBDA positions :
        IF bx <= MAX_BITS
        THEN [ q \in 1..16 |-> ByteAt(bitmap, q - 1) ]
             \o bitpack32Scalar(exceptionValues(vals, positions, b), Len(positions), bx)
             \o simd_bitpack128v32(baseValues(vals, n, b), b)
        ELSE << Len(positions) % 256 >>
             \o simd_bitpack128v32(baseValues(vals, n, b), b)
             \o vbEnc32(exceptionValues(vals, positions, b))
             \o positionBytes(positions)))

simd_p4Enc128Payload(vals, n, b, bx) ==
    IF bx = 0 THEN simd_bitpack128v32(vals, b)
    ELSE IF bx = MAX_BITS + 2 THEN SubSeq(storeU32(vals[1]), 1, (b + 7) \div 8)
    ELSE simd_p4Enc128PayloadExceptions(vals, n, b, bx)

simd_p4Enc128v32(vals, n) ==
    Bind(IF n = 128 THEN simd_p4Bits128(vals) ELSE p4Bits32(vals), LAMBDA h :
        [ out |-> IF h[1] = 0 /\ h[2] = 0 THEN << 0 >>
                  ELSE writeHeader(h[1], h[2]) \o simd_p4Enc128Payload(vals, n, h[1], h[2]),
          b |-> h[1], bx |-> h[2] ])

\* ------------------------------------------------------------------------
\* Vertical bit unpacking kernels (simd/bitunpack_avx2_templates.h,
\* simd/bitunpack_sse_templates.h).  The SSE template is the AVX2 one with
\* vectors of L = 4 lanes instead of L = 8.
\* ------------------------------------------------------------------------

\* _shuffle_avx2[m][4 * lane]: the element of the four loaded exceptions
\* that goes to lane `lane' under the bitmap nibble m, -1 (0xff) for zero
shuffle_avx2 ==
    << << -1, -1, -1, -1 >>, << 0, -1, -1, -1 >>, << -1, 0, -1, -1 >>, << 0, 1, -1, -1 >>,
       << -1, -1, 0, -1 >>, << 0, -1, 1, -1 >>, << -1, 0, 1, -1 >>, << 0, 1, 2, -1 >>,
       << -1, -1, -1, 0 >>, << 0, -1, -1, 1 >>, << -1, 0, -1, 1 >>, << 0, 1, -1, 2 >>,
       << -1, -1, 0, 1 >>, << 0, -1, 1, 2 >>, << -1, 0, 1, 2 >>, << 0, 1, 2, 3 >> >>

\* _mm_add_epi32, _mm256_add_epi32
addLanes(a, b) == Stored([ lane \in 1..Len(a) |-> U32Add(a[lane], b[lane]) ])

\* _mm_slli_si128(v, 4 * k), _mm256_slli_si256(v, 4 * k): within every 128
\* bits the lanes move up by k and zeros enter
shiftLanes(v, k) ==
    Stored([ lane \in 1..Len(v) |-> IF (lane - 1) % 4 >= k THEN v[lane - k] ELSE {} ])

\* a faulty variant of mm256_scan_epi32 that takes the carry from the prefix
\* sum of the low four lanes instead of the previous vector
mm256_scan_epi32_OwnCarry(v, carry) ==
    Bind(addLanes(v, shiftLanes(v, 1)), LAMBDA t :
    Bind(addLanes(t, shiftLanes(t, 2)), LAMBDA p :
        Stored([ lane \in 1..Len(v) |->
                   U32Add(p[4], IF lane > 4 THEN U32Add(p[lane], p[4]) ELSE p[lane]) ])))

\* mm256_scan_epi32 on a carry word: the prefix sum inside every 128 bits,
\* v[3] added to the high lanes, the carry added to all
mm256_scan_epi32(v, carry) ==
    Bind(addLanes(v, shiftLanes(v, 1)), LAMBDA t :
    Bind(addLanes(t, shiftLanes(t, 2)), LAMBDA p :
        Stored([ lane \in 1..Len(v) |->
                   U32Add(carry, IF lane > 4 THEN U32Add(p[lane], p[4]) ELSE p[lane]) ])))

\* a faulty patching that adds the exceptions without the shift by B
patchLanes_Unshifted(ov, half, m, ex, pex, B) ==
    Stored([ lane \in 1..4 |->
        IF shuffle_avx2[m + 1][lane] < 0 THEN ov[4 * half + lane]
        ELSE U32Add(ov[4 * half + lane], ex[pex + shuffle_avx2[m + 1][lane] + 1]) ])

\* the patching of one half vector: the exceptions at pex, shifted left by
\* B, are shuffled to the lanes of the nibble m and added
patchLanes(ov, half, m, ex, pex, B) ==
    Stored([ lane \in 1..4 |->
        IF shuffle_avx2[m + 1][lane] < 0 THEN ov[4 * half + lane]
        ELSE U32Add(ov[4 * half + lane], U32Shl(ex[pex + shuffle_avx2[m + 1][lane] + 1], B)) ])

\* the number of set bits of a nibble
popcount(m) == (m % 2) + ((m \div 2) % 2) + ((m \div 4) % 2) + (m \div 8)

\* a faulty variant of UnpackStep whose cursor advances by the patches of
\* the low four lanes only
UnpackStep_LowLanesOnly(L, B, G, Delta, Patching, mem, bitmap, ex, st) ==
    Bind((G * B) % 32, LAMBDA Offset :
    Bind(IF (G * B) \div 32 > st.idx
         THEN [ iv |-> loadLanes(mem, st.ip, L), ip |-> st.ip + 4 * L ]
         ELSE [ iv |-> st.iv, ip |-> st.ip ], LAMBDA ld :
    Bind(IF Offset + B > 32
         THEN [ iv |-> loadLanes(mem, ld.ip, L), ip |-> ld.ip + 4 * L ] ELSE ld, LAMBDA sp :
    Bind(Stored([ lane \in 1..L |->
            IF Offset + B > 32
            THEN U32Shr(ld.iv[lane], Offset) \cup (U32Shl(sp.iv[lane], 32 - Offset) \cap maskBits(B))
            ELSE U32Shr(ld.iv[lane], Offset) \cap maskBits(B) ]), LAMBDA ov :
    Bind(BitsValue(bitmap, L * G, 4), LAMBDA m_low :
    Bind(IF L = 8 THEN BitsValue(bitmap, L * G + 4, 4) ELSE 0, LAMBDA m_high :
    Bind(IF ~Patching THEN ov
         ELSE patchLanes(ov, 0, m_low, ex, st.pex, B)
              \o (IF L = 8 THEN patchLanes(ov, 1, m_high, ex, st.pex + popcount(m_low), B)
                  ELSE << >>), LAMBDA pv :
    Bind(IF Delta THEN addLanes(mm256_scan_epi32(pv, st.sv), Stored([ lane \in 1..L |-> U32(lane) ]))
         ELSE pv, LAMBDA res :
        [ ip |-> sp.ip, iv |-> sp.iv,
          idx |-> ((G * B) \div 32) + (IF Offset + B > 32 THEN 1 ELSE 0),
          sv |-> IF Delta THEN res[L] ELSE st.sv,
          pex |-> IF Patching THEN st.pex + popcount(m_low) ELSE st.pex,
          out |-> st.out \o res ]))))))))

\* group G; st carries ip, iv, the index idx of the loaded word, the carry
\* sv, the exception cursor pex and the values stored to out
UnpackStep(L, B, G, Delta, Patching, mem, bitmap, ex, st) ==
    Bind((G * B) % 32, LAMBDA Offset :
    Bind(IF (G * B) \div 32 > st.idx
         THEN [ iv |-> loadLanes(mem, st.ip, L), ip |-> st.ip + 4 * L ]
         ELSE [ iv |-> st.iv, ip |-> st.ip ], LAMBDA ld :
    Bind(IF Offset + B > 32
         THEN [ iv |-> loadLanes(mem, ld.ip, L), ip |-> ld.ip + 4 * L ] ELSE ld, LAMBDA sp :
    Bind(Stored([ lane \in 1..L |->
            IF Offset + B > 32
            THEN U32Shr(ld.iv[lane], Offset) \cup (U32Shl(sp.iv[lane], 32 - Offset) \cap maskBits(B))
            ELSE U32Shr(ld.iv[lane], Offset) \cap maskBits(B) ]), LAMBDA ov :
    Bind(BitsValue(bitmap, L * G, 4), LAMBDA m_low :
    Bind(IF L = 8 THEN BitsValue(bitmap, L * G + 4, 4) ELSE 0, LAMBDA m_high :
    Bind(IF ~Patching THEN ov
         ELSE patchLanes(ov, 0, m_low, ex, st.pex, B)
              \o (IF L = 8 THEN patchLanes(ov, 1, m_high, ex, st.pex + popcount(m_low), B)
                  ELSE << >>), LAMBDA pv :
    Bind(IF Delta THEN addLanes(mm256_scan_epi32(pv, st.sv), Stored([ lane \in 1..L |-> U32(lane) ]))
         ELSE pv, LAMBDA res :
        [ ip |-> sp.ip, iv |-> sp.iv,
          idx |-> ((G * B) \div 32) + (IF Offset + B > 32 THEN 1 ELSE 0),
          sv |-> IF Delta THEN res[L] ELSE st.sv,
          pex |-> IF Patching THEN st.pex + popcount(m_low) + popcount(m_high) ELSE st.pex,
          out |-> st.out \o res ]))))))))

\* Count values of B bits; only B = 0 without patching reads nothing
bitunpack_avx2_entry(L, B, Count, Delta, Patching, mem, ip, start, bitmap, ex) ==
    IF B = 0 /\ ~Patching
    THEN [ out |-> [ i \in 1..Count |-> IF Delta THEN U32Add(start, U32(i)) ELSE {} ],
           ip |-> ip, pex |-> 0, ub |-> FALSE ]
    ELSE Bind(Loop(LAMBDA st, G : UnpackStep(L, B, G, Delta, Patching, mem, bitmap, ex, st),
                   [ ip |-> ip, iv |-> [ lane \in 1..L |-> {} ], idx |-> -1, sv |-> start,
                     pex |-> 0, out |-> << >> ], 0, (Count \div L) - 1), LAMBDA r :
             [ out |-> r.out, ip |-> r.ip, pex |-> r.pex, ub |-> FALSE ])

bitunpack_sse_entry(B, Count, Delta, Patching, mem, ip, start, bitmap, ex) ==
    bitunpack_avx2_entry(4, B, Count, Delta, Patching, mem, ip, start, bitmap, ex)

\* ------------------------------------------------------------------------
\* Vertical decoder, SSE (simd/bitunpack128v32_simd.cpp,
\* src/unnamed/part_002)
\* ------------------------------------------------------------------------

\* bitunpack128v32, bitd1unpack128v32, bitd1unpack128v32_ex: funcs[b] has
\* the entries 0..32, a width above 32 indexes past its end (field ub)
simd_bitunpack128v32(Delta, Patching, mem, ip, b, start, bitmap, ex) ==
    IF b > 32 THEN [ out |-> << >>, ip |-> ip, pex |-> 0, ub |-> TRUE ]
    ELSE bitunpack_sse_entry(b, 128, Delta, Patching, mem, ip, start, bitmap, ex)

\* vectors of four: v + 1, the prefix sum, the carry broadcast from the last
\* lane; then the elements after the last whole vector one by one
simd_applyDelta1(vals, n, start) ==
    Bind(Loop(LAMBDA st, i :
                 Bind(mm256_scan_epi32([ lane \in 1..4 |-> U32Add(vals[4 * i + lane], {0}) ],
                                       st.carry), LAMBDA v :
                     [ out |-> st.out \o v, carry |-> v[4] ]),
              [ out |-> << >>, carry |-> start ], 0, (n \div 4) - 1), LAMBDA r :
        r.out \o applyDelta1(SubSeq(vals, 4 * (n \div 4) + 1, Len(vals)), n % 4, r.carry))

simd_p4D1Dec128Exceptions(mem, ip, n, start, b, bx) ==
    Bind(loadBitmap(mem, ip, n), LAMBDA bitmap :
    Bind(bitunpack32Scalar(mem, ip + pad8(n), Cardinality(bitmap), bx), LAMBDA ex :
        IF ex.ub THEN ex
        ELSE simd_bitunpack128v32(TRUE, TRUE, mem, ex.ip, b, start, bitmap, ex.out)))

simd_p4D1Dec128v32(mem, n, start) ==
    Bind(mem[1], LAMBDA b :
        IF b >= 192
        THEN Bind(IF b % 64 < MAX_BITS THEN loadU32(mem, 1) \cap maskBits(b % 64)
                  ELSE loadU32(mem, 1), LAMBDA value :
                 [ out |-> simd_applyDelta1([ i \in 1..n |-> value ], n, start),
                   ip |-> 1 + (((b % 64) + 7) \div 8), ub |-> FALSE ])
        ELSE IF b < 64 THEN simd_bitunpack128v32(TRUE, FALSE, mem, 1, b, start, {}, << >>)
        ELSE IF b >= 128
        THEN IF mem[2] = 0
             THEN simd_bitunpack128v32(TRUE, FALSE, mem, 2, b % 128, start, {}, << >>)
             ELSE simd_p4D1Dec128Exceptions(mem, 2, n, start, b % 128, mem[2])
        ELSE Bind(simd_bitunpack128v32(FALSE, FALSE, mem, 2, b % 64, {}, {}, << >>), LAMBDA base :
                 IF base.ub THEN base
                 ELSE Bind(vbDec32(mem, base.ip, mem[2]), LAMBDA ex :
                          [ out |-> simd_applyDelta1(
                                        mergePositions(base.out, mem, ex.ip, ex.out, b % 64), n, start),
                            ip |-> ex.ip + mem[2], ub |-> FALSE ])))

\* ------------------------------------------------------------------------
\* Vertical bit packing, AVX2 (simd/bitpack256v32_simd.cpp)
\* ------------------------------------------------------------------------

\* group G; st carries the accumulator ov and the bytes stored
PackStep(B, G, vals, st) ==
    Bind((G * B) % 32, LAMBDA Offset :
    Bind(Stored([ lane \in 1..8 |-> vals[G * 8 + lane] \cap maskBits(B) ]), LAMBDA iv :
    Bind(IF Offset = 0 THEN iv
         ELSE Stored([ lane \in 1..8 |-> st.ov[lane] \cup U32Shl(iv[lane], Offset) ]), LAMBDA ov :
        IF Offset + B > 32
        THEN [ out |-> st.out \o copyU32ArrayToLe(ov, 8),
               ov |-> Stored([ lane \in 1..8 |-> U32Shr(iv[lane], 32 - Offset) ]) ]
        ELSE IF Offset + B = 32
        THEN [ out |-> st.out \o copyU32ArrayToLe(ov, 8), ov |-> ov ]
        ELSE [ out |-> st.out, ov |-> ov ])))

\* bitpack_entry<b>: the bytes between out and the pointer returned
simd_bitpack256v32(vals, b) ==
    IF b = 0 THEN << >>
    ELSE IF b = 32 THEN copyU32ArrayToLe(vals, 256)
    ELSE SubSeq(Loop(LAMBDA st, G : PackStep(b, G, vals, st),
                     [ out |-> << >>, ov |-> [ lane \in 1..8 |-> {} ] ], 0, 31).out,
                1, (256 * b + 7) \div 8)

\* ------------------------------------------------------------------------
\* Vertical encoder, AVX2 (simd/p4d1dec256v32.cpp, from line 352)
\* ------------------------------------------------------------------------

\* as for 128 values, eight values at a time; the bitmap is always 32 bytes
simd_p4Enc256PayloadExceptions(vals, n, b, bx) ==
    Bind({ i \in 0..(n - 1) : vals[i + 1] \ maskBits(b) # {} }, LAMBDA bitmap :
    Bind(Ascending(bitmap, n), LAMBDA positions :
        IF bx <= MAX_BITS
        THEN [ q \in 1..32 |-> ByteAt(bitmap, q - 1) ]
             \o bitpack32Scalar(exceptionValues(vals, positions, b), Len(positions), bx)
             \o simd_bitpack256v32(baseValues(vals, n, b), b)
        ELSE << Len(positions) % 256 >>
             \o simd_bitpack256v32(baseValues(vals, n, b), b)
             \o vbEnc32(exceptionValues(vals, positions, b))
             \o positionBytes(positions)))

simd_p4Enc256Payload(vals, n, b, bx) ==
    IF bx = 0 THEN simd_bitpack256v32(vals, b)
    ELSE IF bx = MAX_BITS + 2 THEN SubSeq(storeU32(vals[1]), 1, (b + 7) \div 8)
    ELSE simd_p4Enc256PayloadExceptions(vals, n, b, bx)

simd_p4Enc256v32(vals, n) ==
    Bind(p4Bits32(vals), LAMBDA h :
        [ out |-> IF h[1] = 0 /\ h[2] = 0 THEN << 0 >>
                  ELSE writeHeader(h[1], h[2]) \o simd_p4Enc256Payload(vals, n, h[1], h[2]),
          b |-> h[1], bx |-> h[2] ])

\* ------------------------------------------------------------------------
\* Vertical decoder, AVX2 (src/unnamed/part_002, simd/p4d1dec256v32.cpp,
\* simd/p4_simd_internal_256v.cpp)
\* ------------------------------------------------------------------------

\* bitunpack256v32, bitd1unpack256v32, bitd1unpack256v32_ex: table[b] has
\* the entries 0..32, a width above 32 indexes past its end (field ub)
simd_bitunpack256v32(Delta, Patching, mem, ip, b, start, bitmap, ex) ==
    IF b > 32 THEN [ out |-> << >>, ip |-> ip, pex |-> 0, ub |-> TRUE ]
    ELSE bitunpack_avx2_entry(8, b, 256, Delta, Patching, mem, ip, start, bitmap, ex)

\* vectors of eight: vs = mm256_scani_epi32(v, vs, cv) with cv = 1..8; then
\* the elements after the last whole vector one by one
applyDelta1_256v(vals, n, start) ==
    Bind(Loop(LAMBDA st, i :
                 Bind(addLanes(mm256_scan_epi32([ lane \in 1..8 |-> vals[8 * i + lane] ], st.carry),
                               [ lane \in 1..8 |-> U32(lane) ]), LAMBDA vs :
                     [ out |-> st.out \o vs, carry |-> vs[8] ]),
              [ out |-> << >>, carry |-> start ], 0, (n \div 8) - 1), LAMBDA r :
        r.out \o applyDelta1(SubSeq(vals, 8 * (n \div 8) + 1, Len(vals)), n % 8, r.carry))

\* the exception values of p4D1Dec256Exceptions: 128 at a time with
\* table128[bx], then 32 at a time with table32[bx] (both the vertical AVX2
\* unpack), then the remaining rem < 32 with bitunpack32Scalar
RECURSIVE p4D1Dec256ExceptionValues(_, _, _, _)
p4D1Dec256ExceptionValues(mem, ip, rem, bx) ==
    IF rem = 0 THEN [ out |-> << >>, ip |-> ip, ub |-> FALSE ]
    ELSE IF bx > 32 THEN [ out |-> << >>, ip |-> ip, ub |-> TRUE ]
    ELSE IF rem < 32 THEN bitunpack32Scalar(mem, ip, rem, bx)
    ELSE Bind(IF rem >= 128 THEN 128 ELSE 32, LAMBDA Count :
         Bind(bitunpack_avx2_entry(8, bx, Count, FALSE, FALSE, mem, ip, {}, {}, << >>), LAMBDA r :
         Bind(p4D1Dec256ExceptionValues(mem, r.ip, rem - Count, bx), LAMBDA rest :
             [ out |-> r.out \o rest.out, ip |-> rest.ip, ub |-> rest.ub ])))

\* element j of the tail loop (n not a multiple of 8); st carries out[],
\* start and pex
p4D1Dec256Tail(b, bitmap, ex, j, st) ==
    Bind(IF j \in bitmap THEN st.out[j + 1] \cup U32Shl(ex[st.pex + 1], b) ELSE st.out[j + 1], LAMBDA v :
    Bind(U32Add(st.start, U32Add(v, {0})), LAMBDA s1 :
        [ out |-> [ st.out EXCEPT ![j + 1] = s1 ], start |-> s1,
          pex |-> IF j \in bitmap THEN st.pex + 1 ELSE st.pex ]))

p4D1Dec256Exceptions(mem, ip, n, start, b, bx) ==
    Bind(loadBitmap(mem, ip, n), LAMBDA bitmap :
    Bind(p4D1Dec256ExceptionValues(mem, ip + pad8(n), Cardinality(bitmap), bx), LAMBDA ex :
        IF ex.ub THEN ex
        ELSE Bind(simd_bitunpack256v32(TRUE, TRUE, mem, ex.ip, b, start, bitmap, ex.out), LAMBDA r :
             IF r.ub \/ n % 8 = 0 THEN [ out |-> r.out, ip |-> r.ip, ub |-> r.ub ]
             ELSE [ out |-> Loop(LAMBDA st, j : p4D1Dec256Tail(b, bitmap, ex.out, j, st),
                                 [ out |-> r.out, pex |-> r.pex,
                                   start |-> IF n \div 8 > 0 THEN r.out[8 * (n \div 8)] ELSE start ],
                                 8 * (n \div 8), n - 1).out,
                    ip |-> r.ip, ub |-> FALSE ])))

p4D1Dec256v32(mem, n, start) ==
    Bind(mem[1], LAMBDA b :
        IF b >= 192
        THEN Bind(IF b % 64 < MAX_BITS THEN loadU32(mem, 1) \cap maskBits(b % 64)
                  ELSE loadU32(mem, 1), LAMBDA value :
                 [ out |-> applyDelta1_256v([ i \in 1..n |-> value ], n, start),
                   ip |-> 1 + (((b % 64) + 7) \div 8), ub |-> FALSE ])
        ELSE IF b < 64 THEN simd_bitunpack256v32(TRUE, FALSE, mem, 1, b, start, {}, << >>)
        ELSE IF b >= 128
        THEN IF mem[2] = 0
             THEN simd_bitunpack256v32(TRUE, FALSE, mem, 2, b % 128, start, {}, << >>)
             ELSE p4D1Dec256Exceptions(mem, 2, n, start, b % 128, mem[2])
        ELSE IF mem[2] = 0
        THEN simd_bitunpack256v32(TRUE, FALSE, mem, 2, b % 64, start, {}, << >>)
        ELSE Bind(simd_bitunpack256v32(FALSE, FALSE, mem, 2, b % 64, {}, {}, << >>), LAMBDA base :
                 IF base.ub THEN base
                 ELSE Bind(vbDec32(mem, base.ip, mem[2]), LAMBDA ex :
                          [ out |-> applyDelta1_256v(
                                        mergePositions(base.out, mem, ex.ip, ex.out, b % 64), n, start),
                            ip |-> ex.ip + mem[2], ub |-> FALSE ])))

\* ------------------------------------------------------------------------
\* The blocks the codec is run on (tests/binary_compat_test.cpp)
\* ------------------------------------------------------------------------

\* a value exactly w bits wide (0 when w = 0), varying with i
baseValue(i, w) == IF w = 0 THEN {} ELSE { k \in 0..(w - 2) : (i + k) % 3 = 0 } \cup { w - 1 }

\* a value exactly e bits wide, varying with i
excValue(i, e) == { k \in 0..(e - 2) : (i + 2 * k) % 5 < 2 } \cup { e - 1 }

\* x of the positions 1..n, evenly spread
isException(i, n, x) == ((i - 1) * x) \div n # (i * x) \div n

fillConstant(n, value) == [ i \in 1..n |-> value ]

\* values of up to w bits, of which a few are narrower
fillRandom(n, w) == [ i \in 1..n |-> IF i % 7 = 3 THEN baseValue(i, w) \ { w - 1 } ELSE baseValue(i, w) ]

\* values of w bits of which x are e bits wide
fillWithExceptions(n, w, e, x) ==
    [ i \in 1..n |-> IF isException(i, n, x) THEN excValue(i, e) ELSE baseValue(i, w) ]

\* how many exceptions, and how many bits above the base width they have
Shapes == << [x |-> 1, gap |-> 1], [x |-> 40, gap |-> 2], [x |-> 3, gap |-> 20],
             [x |-> 5, gap |-> 3], [x |-> 32, gap |-> 12], [x |-> 20, gap |-> 8] >>

NumShapes == 3

Sizes == << 256, 1, 33, 128, 32, 7, 255, 64 >>

NumSizes == 4

\* start values: 0, 0xFFFFFFF0 (the running sum wraps), 0x80000007
Seeds == << {}, 4..31, {0, 1, 2, 31} >>

NumSeeds == 2

\* the bytes that follow a block in memory are not part of it
PadBytes == << 0, 255 >>

SizeOf(sizes, k) == sizes[(k % Len(sizes)) + 1]

SeedOf(k) == Seeds[((k \div 3) % NumSeeds) + 1]

PadOf(k) == PadBytes[((k \div 5) % 2) + 1]

\* the blocks of the sizes given: all zero and constant ones, ones of every
\* width without exceptions, and ones of every width with each shape of
\* exceptions that fits in 32 bits
Blocks(sizes) ==
    { [ vals |-> fillConstant(sizes[k], {}), start |-> SeedOf(k), pad |-> PadOf(k) ] :
        k \in 1..Len(sizes) }
    \cup { [ vals |-> fillConstant(SizeOf(sizes, w), baseValue(1, w)),
             start |-> SeedOf(w), pad |-> PadOf(w + 1) ] : w \in 1..MAX_BITS }
    \cup { [ vals |-> fillRandom(SizeOf(sizes, w), w),
             start |-> SeedOf(w + 1), pad |-> PadOf(w) ] : w \in 0..MAX_BITS }
    \cup { [ vals |-> fillWithExceptions(SizeOf(sizes, c[1] + c[2]), c[2],
                                         c[2] + Shapes[c[1]].gap, Shapes[c[1]].x),
             start |-> SeedOf(c[1] + c[2]), pad |-> PadOf(c[1] + c[2]) ] :
        c \in { t \in (1..NumShapes) \X (0..MAX_BITS) : t[2] + Shapes[t[1]].gap <= MAX_BITS } }

\* blocks given value by value: four zeros; four times 42; 0..7; 128 values
\* that are 0 except for 1000 at every 16th position; 64 values that are 0
\* except for 0xFFFFFFFF at every 8th position; 128 values with 8 at every
\* 8th position, 1 at the two positions after it in the first 112, 0 elsewhere
Scenarios ==
    << fillConstant(4, {}),
       fillConstant(4, U32(42)),
       [ i \in 1..8 |-> U32(i - 1) ],
       [ i \in 1..128 |-> IF (i - 1) % 16 = 0 THEN U32(1000) ELSE {} ],
       [ i \in 1..64 |-> IF (i - 1) % 8 = 0 THEN 0..31 ELSE {} ],
       [ i \in 1..128 |-> IF (i - 1) % 8 = 0 THEN U32(8)
                           ELSE IF (i - 1) % 8 \in 1..2 /\ i <= 112 THEN U32(1) ELSE {} ] >>

ScenarioBlocks(S) == { [ vals |-> S[k], start |-> {}, pad |-> 0 ] : k \in 1..Len(S) }

\* ------------------------------------------------------------------------
\* The codec as a state machine: a block is encoded by every encoder of its
\* layout, then one of the encodings is decoded by one of the decoders
\* ------------------------------------------------------------------------

VARIABLES layout, input, start, pad, pc, enc, dec

vars == << layout, input, start, pad, pc, enc, dec >>

\* bytes of memory readable past the end of a block
Slack == 64

Mem(bytes) == bytes \o [ i \in 1..Slack |-> pad ]

\* what a decoder by, run on the block encoded by src, returned
Decoded(src, by, r) == [ src |-> src, by |-> by, out |-> r.out, ip |-> r.ip, ub |-> r.ub ]

NoDec == [ src |-> "", by |-> "", out |-> << >>, ip |-> 0, ub |-> FALSE ]

Init32 ==
    /\ layout = "32"
    /\ \E blk \in Blocks(SubSeq(Sizes, 1, NumSizes)) \cup ScenarioBlocks(Scenarios) :
         /\ input = blk.vals
         /\ start = blk.start
         /\ pad = blk.pad
    /\ pc = "encode"
    /\ enc = << >>
    /\ dec = NoDec

Enc32 ==
    /\ pc = "encode" /\ layout = "32" /\ "scalar" \notin DOMAIN enc
    /\ enc' = ("scalar" :> p4Enc32(input, Len(input)))
    /\ pc' = "decode"
    /\ UNCHANGED << layout, input, start, pad, dec >>

Dec32 ==
    /\ pc = "decode" /\ layout = "32"
    /\ dec' = Decoded("scalar", "scalar", p4D1Dec32(Mem(enc["scalar"].out), Len(input), start))
    /\ pc' = "decoded"
    /\ UNCHANGED << layout, input, start, pad, enc >>

Next32 == Enc32 \/ Dec32

Spec32 == Init32 /\ [][Next32]_vars

\* ------------------------------------------------------------------------
\* The 128v layout: a block of 128 values is encoded by the scalar and by
\* the SSE encoder, then one of the encodings is decoded by the scalar or
\* by the SSE decoder
\* ------------------------------------------------------------------------

Init128 ==
    /\ layout = "128v"
    /\ \E blk \in Blocks(<< V128_LANE_COUNT * V128_GROUP_COUNT >>)
                    \cup ScenarioBlocks(SelectSeq(Scenarios, LAMBDA v : Len(v) = 128)) :
         /\ input = blk.vals
         /\ start = blk.start
         /\ pad = blk.pad
    /\ pc = "encode"
    /\ enc = << >>
    /\ dec = NoDec

\* pc once the encoder named has run
AfterEnc(name, all) == IF all \subseteq (DOMAIN enc \cup {name}) THEN "decode" ELSE "encode"

Enc128Scalar ==
    /\ pc = "encode" /\ layout = "128v" /\ "scalar" \notin DOMAIN enc
    /\ enc' = enc @@ ("scalar" :> scalar_p4Enc128v32(input, Len(input)))
    /\ pc' = AfterEnc("scalar", {"scalar", "simd"})
    /\ UNCHANGED << layout, input, start, pad, dec >>

Enc128Simd ==
    /\ pc = "encode" /\ layout = "128v" /\ "simd" \notin DOMAIN enc
    /\ enc' = enc @@ ("simd" :> simd_p4Enc128v32(input, Len(input)))
    /\ pc' = AfterEnc("simd", {"scalar", "simd"})
    /\ UNCHANGED << layout, input, start, pad, dec >>

Dec128Scalar ==
    /\ pc = "decode" /\ layout = "128v"
    /\ \E src \in DOMAIN enc :
         dec' = Decoded(src, "scalar", scalar_p4D1Dec128v32(Mem(enc[src].out), Len(input), start))
    /\ pc' = "decoded"
    /\ UNCHANGED << layout, input, start, pad, enc >>

Dec128Simd ==
    /\ pc = "decode" /\ layout = "128v"
    /\ \E src \in DOMAIN enc :
         dec' = Decoded(src, "simd", simd_p4D1Dec128v32(Mem(enc[src].out), Len(input), start))
    /\ pc' = "decoded"
    /\ UNCHANGED << layout, input, start, pad, enc >>

Next128 == Enc128Scalar \/ Enc128Simd \/ Dec128Scalar \/ Dec128Simd

Spec128 == Init128 /\ [][Next128]_vars

\* ------------------------------------------------------------------------
\* The 256v layout: a block of 256 values is encoded by the scalar and by
\* the AVX2 encoder, then one of the encodings is decoded by the AVX2 decoder
\* ------------------------------------------------------------------------

Init256 ==
    /\ layout = "256v"
    /\ \E blk \in Blocks(<< V256_LANE_COUNT * V128_GROUP_COUNT >>) :
         /\ input = blk.vals
         /\ start = blk.start
         /\ pad = blk.pad
    /\ pc = "encode"
    /\ enc = << >>
    /\ dec = NoDec

Enc256Scalar ==
    /\ pc = "encode" /\ layout = "256v" /\ "scalar" \notin DOMAIN enc
    /\ enc' = enc @@ ("scalar" :> scalar_p4Enc256v32(input, Len(input)))
    /\ pc' = AfterEnc("scalar", {"scalar", "simd"})
    /\ UNCHANGED << layout, input, start, pad, dec >>

Enc256Simd ==
    /\ pc = "encode" /\ layout = "256v" /\ "simd" \notin DOMAIN enc
    /\ enc' = enc @@ ("simd" :> simd_p4Enc256v32(input, Len(input)))
    /\ pc' = AfterEnc("simd", {"scalar", "simd"})
    /\ UNCHANGED << layout, input, start, pad, dec >>

Dec256Simd ==
    /\ pc = "decode" /\ layout = "256v"
    /\ \E src \in DOMAIN enc :
         dec' = Decoded(src, "simd", p4D1Dec256v32(Mem(enc[src].out), Len(input), start))
    /\ pc' = "decoded"
    /\ UNCHANGED << layout, input, start, pad, enc >>

Next256 == Enc256Scalar \/ Enc256Simd \/ Dec256Simd

Spec256 == Init256 /\ [][Next256]_vars

\* ------------------------------------------------------------------------
\* The three layouts together
\* ------------------------------------------------------------------------

Init == Init32 \/ Init128 \/ Init256

Next == Next32 \/ Next128 \/ Next256

Spec == Init /\ [][Next]_vars

\* ------------------------------------------------------------------------
\* The variable-byte array codec on its own: an array is encoded by vbEnc32
\* and the bytes are decoded by vbDec32
\* ------------------------------------------------------------------------

\* values on both sides of every length threshold of the code
VbValues ==
    << U32(0), U32(155), U32(156), U32(16539), U32(16540), U32(2113691), U32(2113692),
       U32(16777215), U32(16777216), 0..31 >>

VbSizes == << 8, 16, 1, 9, 33, 12 >>

NumVbSizes == 4

\* arrays of n values: k times the value a, then n - k times the value b
VbArrays ==
    { [ i \in 1..VbSizes[c[1]] |-> VbValues[IF i <= c[2] THEN c[3] ELSE c[4]] ] :
        c \in { t \in (1..NumVbSizes) \X (0..2) \X (1..Len(VbValues)) \X (1..Len(VbValues)) :
                  t[2] > 0 \/ t[3] = t[4] } }

InitVb ==
    /\ layout = "vb"
    /\ input \in VbArrays
    /\ start = {}
    /\ pad \in { PadBytes[k] : k \in 1..Len(PadBytes) }
    /\ pc = "encode"
    /\ enc = << >>
    /\ dec = NoDec

VbEnc ==
    /\ pc = "encode" /\ layout = "vb"
    /\ enc' = ("vbyte" :> [ out |-> vbEnc32(input) ])
    /\ pc' = "decode"
    /\ UNCHANGED << layout, input, start, pad, dec >>

VbDec ==
    /\ pc = "decode" /\ layout = "vb"
    /\ dec' = Bind(vbDec32(Mem(enc["vbyte"].out), 0, Len(input)), LAMBDA r :
                   [ src |-> "vbyte", by |-> "vbyte", out |-> r.out, ip |-> r.ip, ub |-> FALSE ])
    /\ pc' = "decoded"
    /\ UNCHANGED << layout, input, start, pad, enc >>

NextVb == VbEnc \/ VbDec

SpecVb == InitVb /\ [][NextVb]_vars

\* ------------------------------------------------------------------------
\* Two consecutive blocks: a sequence is cut in two, each part is encoded by
\* p4Enc32, and the parts are decoded one after the other, the second from
\* the last value decoded from the first
\* ------------------------------------------------------------------------

ChainSizes == << 64, 40, 257, 130 >>

\* lengths of the first block
ChainCuts(n) ==
    { c \in {1, 7, 32, 33, 64, n - 1} : c >= 1 /\ c < n /\ c <= MAX_VALUES /\ n - c <= MAX_VALUES }

InitChain ==
    /\ layout = "32"
    /\ \E blk \in Blocks(ChainSizes) :
         /\ input = blk.vals
         /\ start = blk.start
         /\ pad = blk.pad
    /\ pc = "cut"
    /\ enc = << >>
    /\ dec = NoDec

\* the two calls of p4Enc32; n is the number of values given to the call
EncChain ==
    /\ pc = "cut"
    /\ \E c \in ChainCuts(Len(input)) :
         enc' = ("first" :> ([ n |-> c ] @@ p4Enc32(SubSeq(input, 1, c), c)))
                @@ ("second" :> ([ n |-> Len(input) - c ]
                                 @@ p4Enc32(SubSeq(input, c + 1, Len(input)), Len(input) - c)))
    /\ pc' = "first"
    /\ UNCHANGED << layout, input, start, pad, dec >>

\* one call of p4D1Dec32: the first block from start, the second from the
\* last value decoded from the first
DecChain ==
    /\ pc \in {"first", "second"}
    /\ Bind(p4D1Dec32(Mem(enc[pc].out), enc[pc].n,
                      IF pc = "first" THEN start ELSE dec.out[Len(dec.out)]), LAMBDA r :
           dec' = Decoded(pc, "scalar", [ out |-> dec.out \o r.out, ip |-> r.ip,
                                          ub |-> dec.ub \/ r.ub ]))
    /\ pc' = IF pc = "first" THEN "second" ELSE "decoded"
    /\ UNCHANGED << layout, input, start, pad, enc >>

NextChain == EncChain \/ DecChain

SpecChain == InitChain /\ [][NextChain]_vars

\* ------------------------------------------------------------------------
\* Blocks with a damaged header: a block of each strategy is encoded, the
\* width field of its first byte is overwritten with a width above 32 (the
\* flag bits are kept), and the bytes are handed to a decoder of the layout
\* ------------------------------------------------------------------------

\* one block for each header form: simple, constant, bitmap, vbyte
CorruptBlocks(n) ==
    { [ vals |-> fillRandom(n, 5), start |-> Seeds[1], pad |-> PadBytes[2] ],
      [ vals |-> fillConstant(n, U32(42)), start |-> Seeds[2], pad |-> PadBytes[1] ],
      [ vals |-> fillWithExceptions(n, 1, 1 + Shapes[2].gap, Shapes[2].x),
        start |-> Seeds[1], pad |-> PadBytes[1] ],
      [ vals |-> fillWithExceptions(n, 3, 3 + Shapes[3].gap, Shapes[3].x),
        start |-> Seeds[1], pad |-> PadBytes[2] ] }

InitCorrupt ==
    /\ \E c \in { << "32", MAX_VALUES >>, << "128v", V128_LANE_COUNT * V128_GROUP_COUNT >>,
                  << "256v", V256_LANE_COUNT * V128_GROUP_COUNT >> } :
         /\ layout = c[1]
         /\ \E blk \in CorruptBlocks(c[2]) :
              /\ input = blk.vals
              /\ start = blk.start
              /\ pad = blk.pad
    /\ pc = "encode"
    /\ enc = << >>
    /\ dec = NoDec

\* the first byte of every encoding keeps its two flag bits and gets the
\* width w in its low six bits
CorruptHeader ==
    /\ pc = "decode"
    /\ \A e \in DOMAIN enc : enc[e].b <= MAX_BITS
    /\ \E w \in (MAX_BITS + 1)..63 :
         enc' = [ e \in DOMAIN enc |->
                    [ out |-> << 64 * (enc[e].out[1] \div 64) + w >> \o Tail(enc[e].out),
                      b |-> w, bx |-> enc[e].bx ] ]
    /\ UNCHANGED << layout, input, start, pad, pc, dec >>

NextCorrupt == Next \/ CorruptHeader

SpecCorrupt == InitCorrupt /\ [][NextCorrupt]_vars

\* ------------------------------------------------------------------------
\* Properties
\* ------------------------------------------------------------------------

Lo16(v) == BitsValue(v, 0, 16)

Hi16(v) == BitsValue(v, 16, 16)

\* prev + d + 1 mod 2^32
NextOriginal(prev, d) ==
    LET lo == Lo16(prev) + Lo16(d) + 1
        hi == Hi16(prev) + Hi16(d) + (lo \div 65536)
    IN  BitsOf(lo % 65536, 0, 16) \cup BitsOf(hi % 65536, 16, 16)

\* out is the sequence X with X[i] = X[i-1] + D[i] + 1 mod 2^32 and
\* X[0] = start, D being the encoded block: out[i] = start + sum_{j<=i} (D[j] + 1)
Restored(out) ==
    /\ Len(out) = Len(input)
    /\ \A i \in 1..Len(input) :
         out[i] = NextOriginal(IF i = 1 THEN start ELSE out[i - 1], input[i])

\* C1: for every n in 1..256, every start value and every sequence X, the
\* block of deltas D[i] = X[i] - X[i-1] - 1 mod 2^32 encoded by the scalar
\* p4Enc32 and decoded by p4D1Dec32 with the same n and start gives X back
C1_RoundTrip32 ==
    (pc = "decoded" /\ layout = "32") => (~dec.ub /\ Restored(dec.out))

\* a block of 256 values with variable-byte exceptions, decoded from a start
\* value that makes the running sum wrap
C1_Witness ==
    /\ pc = "decoded" /\ layout = "32"
    /\ Len(input) = MAX_VALUES
    /\ enc["scalar"].bx = MAX_BITS + 1
    /\ start = Seeds[2]
    /\ \E i \in 2..Len(input) : 31 \in dec.out[i - 1] /\ 31 \notin dec.out[i]
    /\ Restored(dec.out)

\* the bit width of the widest value of the block
MaxWidth == bitWidth32(OrAll(input))

\* the bytes p4Enc32 wrote for the block
Encoded32 == enc["scalar"].out

\* C11 as stated: a block of n values that all fit in b < 32 bits, b being
\* the width of the widest value, is encoded in exactly 1 + ceil(n*b/8) bytes
C11_LengthOfEveryBlock ==
    (pc # "encode" /\ layout = "32" /\ MaxWidth < 32)
        => Len(Encoded32) = 1 + ((Len(input) * MaxWidth + 7) \div 8)

\* C11: a block for which the analyzer selects simple bit packing (bx = 0)
\* at a base width b < 32 has no value wider than b bits, b is the width of
\* its widest value, and it is encoded in exactly 1 + ceil(n*b/8) bytes
C11_SimpleLength ==
    (pc # "encode" /\ layout = "32" /\ enc["scalar"].bx = 0 /\ enc["scalar"].b < 32)
        => /\ enc["scalar"].b = MaxWidth
           /\ Len(Encoded32) = 1 + ((Len(input) * enc["scalar"].b + 7) \div 8)

\* 33 values of 6 bits packed without exceptions: 1 + 25 bytes
C11_Witness ==
    /\ pc # "encode" /\ layout = "32"
    /\ enc["scalar"].bx = 0 /\ enc["scalar"].b = 6
    /\ Len(input) = 33
    /\ Len(Encoded32) = 26

\* the number of bytes of the variable-byte code of one value, by the
\* thresholds 156, 16540, 2113692 and 2^24
VbLen(v) ==
    IF \E k \in v : k >= 24 THEN 5
    ELSE IF BitsValue(v, 0, 24) >= 2113692 THEN 4
    ELSE IF BitsValue(v, 0, 24) >= 16540 THEN 3
    ELSE IF BitsValue(v, 0, 24) >= 156 THEN 2
    ELSE 1

RECURSIVE VbLenSum(_, _)
VbLenSum(vals, n) == IF n = 0 THEN 0 ELSE VbLenSum(vals, n - 1) + VbLen(vals[n])

\* the per-value codes of an array, one after the other
RECURSIVE VbConcat(_, _)
VbConcat(vals, n) == IF n = 0 THEN << >> ELSE VbConcat(vals, n - 1) \o vbPut32(vals[n])

\* 0xFF and the values as raw little-endian uint32s
VbEscapeForm(vals) ==
    << 255 >> \o [ k \in 1..(4 * Len(vals)) |->
                     BitsValue(vals[((k - 1) \div 4) + 1], 8 * ((k - 1) % 4), 8) ]

\* C12: vbEnc32 emits the escape form, 1 + 4n bytes, exactly when the sum
\* of the per-value lengths exceeds 4n - 32, and otherwise exactly the
\* per-value codes
C12_EscapeThreshold ==
    (pc # "encode" /\ layout = "vb")
        => IF VbLenSum(input, Len(input)) > 4 * Len(input) - 32
           THEN /\ enc["vbyte"].out = VbEscapeForm(input)
                /\ Len(enc["vbyte"].out) = 1 + 4 * Len(input)
           ELSE /\ enc["vbyte"].out = VbConcat(input, Len(input))
                /\ Len(enc["vbyte"].out) = VbLenSum(input, Len(input))

\* 16 values of 33 bytes in all, one more than 4n - 32, are escaped
C12_Witness ==
    /\ pc # "encode" /\ layout = "vb"
    /\ Len(input) = 16
    /\ VbLenSum(input, 16) = 33
    /\ enc["vbyte"].out[1] = 255

\* the block of 128 values that holds 1000 at the positions 0, 16, ..., 112
\* and 0 everywhere else
SparseThousands == Scenarios[4]

\* C13 as stated: for the block SparseThousands the analyzers return b = 0
\* and bx = 10 and the encoders emit 0x80, 0x0A, a bitmap of 16 bytes and 10
\* bytes of patches
C13_BitmapScenario ==
    (layout = "128v" /\ input = SparseThousands)
        => \A e \in DOMAIN enc :
             /\ enc[e].b = 0 /\ enc[e].bx = 10
             /\ SubSeq(enc[e].out, 1, 2) = << 128, 10 >>
             /\ Len(enc[e].out) = 2 + 16 + 10

\* C13: for the block SparseThousands the analyzers p4Bits128 (scalar and
\* SSE) and p4Bits32 return b = 0 and bx = 33, and the encoders emit the
\* header byte 0x40, the count 8, the eight patches 1000 in the escape form
\* of the variable-byte array (0xFF and 32 raw bytes) and the position bytes
\* 0, 16, ..., 112: 43 bytes
C13_VbyteScenario ==
    (layout = "128v" /\ input = SparseThousands)
        => /\ p4Bits32(input) = << 0, 33 >>
           /\ \A e \in DOMAIN enc :
                /\ enc[e].b = 0 /\ enc[e].bx = 33
                /\ enc[e].out = << 64, 8, 255 >>
                                 \o [ k \in 1..32 |-> << 232, 3, 0, 0 >>[((k - 1) % 4) + 1] ]
                                 \o [ k \in 1..8 |-> 16 * (k - 1) ]

\* both encoders have encoded the block SparseThousands
C13_Witness ==
    /\ layout = "128v" /\ input = SparseThousands
    /\ DOMAIN enc = {"scalar", "simd"}
    /\ Len(enc["scalar"].out) = 43 /\ Len(enc["simd"].out) = 43

\* the block of four values 42
FourFortyTwos == Scenarios[2]

\* C14 as stated: the block 0xC6 0x2A decoded with n = 4 and start 0 gives
\* 43, 85, 127, 169
C14_ConstantScenarioAsStated ==
    (pc = "decoded" /\ layout = "32" /\ Encoded32 = << 198, 42 >>
        /\ Len(input) = 4 /\ start = {})
        => dec.out = << U32(43), U32(85), U32(127), U32(169) >>

\* C14: four values 42 are encoded as 0xC6 0x2A, and these two bytes decoded
\* with n = 4 and start 0 give 43, 86, 129, 172 (each value is the one
\* before plus 42 + 1), the decoder returning the offset 2
C14_ConstantScenario ==
    /\ (pc # "encode" /\ layout = "32" /\ input = FourFortyTwos)
          => Encoded32 = << 198, 42 >>
    /\ (pc = "decoded" /\ layout = "32" /\ Encoded32 = << 198, 42 >>
          /\ Len(input) = 4 /\ start = {})
          => /\ dec.out = << U32(43), U32(86), U32(129), U32(172) >>
             /\ dec.ip = 2 /\ ~dec.ub

\* the two bytes have been decoded
C14_Witness ==
    /\ pc = "decoded" /\ layout = "32" /\ input = FourFortyTwos /\ start = {}
    /\ Encoded32 = << 198, 42 >>
    /\ Len(dec.out) = 4

\* bit p of the little-endian bit stream that starts at byte offset off
StreamBit(bytes, off, p) == (bytes[off + (p \div 8) + 1] \div Pow2(p % 8)) % 2

\* the bits [j*w, (j+1)*w) of the stream at off: field j of a horizontally
\* packed block
HField(bytes, off, j, w) == { t \in 0..(w - 1) : StreamBit(bytes, off, j * w + t) = 1 }

\* field i of a block packed vertically over L lanes: the bits
\* [g*w, (g+1)*w), g = i / L, of the stream made of the words of lane i % L
VField(bytes, off, L, i, w) ==
    { t \in 0..(w - 1) :
        StreamBit(bytes, off, 32 * (((((i \div L) * w + t) \div 32) * L) + (i % L))
                              + (((i \div L) * w + t) % 32)) = 1 }

\* the low w bits of value i in the base payload at off, by the layout
BaseField(bytes, off, i, w) ==
    IF layout = "32" THEN HField(bytes, off, i, w)
    ELSE VField(bytes, off, IF layout = "128v" THEN V128_LANE_COUNT ELSE V256_LANE_COUNT, i, w)

\* the value D[i] with out[i] = out[i-1] + D[i] + 1 mod 2^32, out[0] = start
Undelta(out, i) == U32Add(out[i], (0..31) \ (IF i = 1 THEN start ELSE out[i - 1]))

\* the bytes that were decoded
DecodedBytes == enc[dec.src].out

\* the positions marked in the bitmap of a bitmap-patched block
BitmapPositions(bytes) == { i \in 0..(Len(input) - 1) : StreamBit(bytes, 2, i) = 1 }

\* a block with the header [0x80 | b][bx], bx > 0, has been decoded
BitmapBlockDecoded ==
    /\ pc = "decoded"
    /\ DecodedBytes[1] \in 128..191
    /\ DecodedBytes[2] > 0

\* what the decoder returned is what reading the patches as the fields of
\* bx bits of one horizontally packed block at offset patches, and the base
\* values at offset base, gives
ReadsPatchesAt(bytes, b, bx, pos, patches, base) ==
    /\ ~dec.ub
    /\ Len(dec.out) = Len(input)
    /\ \A i \in 0..(Len(input) - 1) :
         Bind(Undelta(dec.out, i + 1), LAMBDA d :
             /\ U32Shr(d, b) = IF i \in pos
                               THEN HField(bytes, patches,
                                           Cardinality({ q \in pos : q < i }), bx)
                               ELSE {}
             /\ d \cap maskBits(b) = BaseField(bytes, base, i, b))

\* C15: a decoder (scalar, SSE 128v, AVX2 256v) given a bitmap-patched block
\* with k exceptions, 1 <= k < n, takes patch j from the bits
\* [j*bx, (j+1)*bx) of the patch stream that follows the bitmap, and reads
\* the base values from ceil(k*bx/8) bytes after the start of that stream
C15_HorizontalPatchStream ==
    BitmapBlockDecoded
        => Bind(BitmapPositions(DecodedBytes), LAMBDA pos :
               (Cardinality(pos) >= 1 /\ Cardinality(pos) < Len(input))
                   => ReadsPatchesAt(DecodedBytes, DecodedBytes[1] % 128, DecodedBytes[2], pos,
                                     2 + ((Len(input) + 7) \div 8),
                                     2 + ((Len(input) + 7) \div 8)
                                       + ((Cardinality(pos) * DecodedBytes[2] + 7) \div 8)))

\* the offsets returned by the unpack variants of the three layouts for base
\* width 0 at offset ip of mem: plain, fused delta1, fused delta1 with the
\* patches ex at the positions bitmap
ZeroWidthOffsets(mem, ip, bitmap, ex) ==
    { bitunpack32Scalar(mem, ip, Len(input), 0).ip,
      bitunpackd1_32Scalar(mem, ip, Len(input), start, 0).ip,
      bitunpack128v32Scalar(mem, ip, 0).ip,
      bitunpackVScalar(V256_LANE_COUNT, mem, ip, 0).ip,
      simd_bitunpack128v32(FALSE, FALSE, mem, ip, 0, {}, {}, << >>).ip,
      simd_bitunpack128v32(TRUE, FALSE, mem, ip, 0, start, {}, << >>).ip,
      simd_bitunpack128v32(TRUE, TRUE, mem, ip, 0, start, bitmap, ex).ip,
      simd_bitunpack256v32(FALSE, FALSE, mem, ip, 0, {}, {}, << >>).ip,
      simd_bitunpack256v32(TRUE, FALSE, mem, ip, 0, start, {}, << >>).ip,
      simd_bitunpack256v32(TRUE, TRUE, mem, ip, 0, start, bitmap, ex).ip }

\* C16: for base width 0 every unpack variant (plain, fused delta1, fused
\* delta1 with patching; layouts 32, 128v, 256v) reads no payload byte and
\* returns the offset it was given
C16_ZeroWidthReadsNothing ==
    pc = "decoded"
        => \A ip \in 1..2 :
               ZeroWidthOffsets(Mem(DecodedBytes), ip, exception_positions(input, Len(input), 0),
                                exceptionValues(input,
                                    Ascending(exception_positions(input, Len(input), 0), Len(input)),
                                    0)) = {ip}

\* the scan of p4Bits32 ran on the block: it is neither all zero nor constant
ScanRan(vals) ==
    /\ OrAll(vals) # {}
    /\ \E i \in 1..Len(vals) : vals[i] # vals[1]

\* min_size when the scan of p4Bits32 ends
ModelSize(vals) ==
    Bind(bitWidth32(OrAll(vals)), LAMBDA max_bits :
        Loop(LAMBDA st, t : p4BitsStep(Len(vals), bit_width_count(vals), max_bits,
                                       max_bits - 1 - t, st),
             p4BitsStart(Len(vals), bit_width_count(vals), max_bits), 0, max_bits - 1).min_size)

\* C17: the number of bytes the encoder emits for a block equals the
\* min_size the analyzer computed for the (b, bx) it chose
C17_EmittedEqualsModelSize ==
    (pc # "encode" /\ ScanRan(input)) => Len(Encoded32) = ModelSize(input)

\* the model sizes of the candidate base widths 0..max_bits (element
\* base + 1): the simple size at the widest width; below it the smaller of
\* the two patched sizes, from the locals of p4Bits32 when the scan reaches
\* that width
CandidateSizes(vals) ==
    Bind(bitWidth32(OrAll(vals)), LAMBDA max_bits :
    Bind(bit_width_count(vals), LAMBDA cnt :
        Loop(LAMBDA r, t :
                 Bind(max_bits - 1 - t, LAMBDA base :
                 Bind(pad8(Len(vals) * base) + 2 + r.st.exception_count
                      + r.st.vbyte_size_accumulator, LAMBDA v :
                 Bind(pad8(Len(vals) * base) + 2 + pad8(Len(vals))
                      + pad8(r.st.exception_count * (max_bits - base)), LAMBDA l :
                     [ st |-> p4BitsStep(Len(vals), cnt, max_bits, base, r.st),
                       size |-> << IF l <= v THEN l ELSE v >> \o r.size ]))),
             [ st |-> p4BitsStart(Len(vals), cnt, max_bits),
               size |-> << pad8(Len(vals) * max_bits) + 1 >> ],
             0, max_bits - 1).size))

\* the candidate base widths whose model size is the least
TiedBases(vals) ==
    Bind(CandidateSizes(vals), LAMBDA size :
        { base \in 0..(Len(size) - 1) :
            \A other \in 0..(Len(size) - 1) : size[base + 1] <= size[other + 1] })

\* the analyzers have run on a block with two or more minimal candidates
TieEncoded == pc = "decode" /\ ScanRan(input) /\ Cardinality(TiedBases(input)) >= 2

\* C18 as stated: when two or more candidate base widths give the same
\* minimal model size, the analyzer returns the lowest of them
C18_LowestBaseWins ==
    TieEncoded => \A e \in DOMAIN enc :
                      \A base \in TiedBases(input) : enc[e].b <= base

\* C18: when two or more candidate base widths give the same minimal model
\* size, the analyzer returns the highest of them (the scan runs from the
\* widest width down and replaces its choice only by a strictly smaller size)
C18_HighestBaseWins ==
    TieEncoded => \A e \in DOMAIN enc :
                      /\ enc[e].b \in TiedBases(input)
                      /\ \A base \in TiedBases(input) : enc[e].b >= base

\* a block with tied candidates was encoded and the base width returned is
\* above the lowest of them
C18_Witness ==
    /\ TieEncoded
    /\ \E e \in DOMAIN enc : \E base \in TiedBases(input) :
           enc[e].b \in TiedBases(input) /\ base < enc[e].b

TrueExceptionCount(b) == Cardinality(exception_positions(input, Len(input), b))

\* C20: whenever the variable-byte patched strategy is selected for a block
\* of n <= 256 values, the count byte after the header equals the true
\* number of exceptions, which is between 1 and 255, the block ends with
\* that many position bytes, and the decoder reads exactly that many patch
\* values and position bytes: it stops at the end of the block with the
\* original values
C20_VbyteCountIsExact ==
    /\ \A e \in DOMAIN enc :
          enc[e].bx = MAX_BITS + 1
              => /\ TrueExceptionCount(enc[e].b) \in 1..255
                 /\ enc[e].out[2] = TrueExceptionCount(enc[e].b)
                 /\ SubSeq(enc[e].out, Len(enc[e].out) - enc[e].out[2] + 1, Len(enc[e].out))
                      = positionBytes(Ascending(exception_positions(input, Len(input), enc[e].b),
                                                Len(input)))
    /\ (pc = "decoded" /\ enc[dec.src].bx = MAX_BITS + 1)
          => (~dec.ub /\ dec.ip = Len(DecodedBytes) /\ Restored(dec.out))

\* a block of 256 values with three variable-byte patches has been decoded
C20_Witness ==
    /\ pc = "decoded"
    /\ Len(input) = MAX_VALUES
    /\ enc[dec.src].bx = MAX_BITS + 1
    /\ DecodedBytes[2] = 3
    /\ TrueExceptionCount(enc[dec.src].b) = 3
    /\ dec.ip = Len(DecodedBytes)

\* the patches of the block at base width b, in the order they are written
PatchesAt(b) ==
    exceptionValues(input, Ascending(exception_positions(input, Len(input), b), Len(input)), b)

\* the offset after the last byte encoder e wrote: the end of the block, or,
\* with variable-byte patches, the end of the per-value codes that vbEnc32
\* writes before it decides for the escape form
WriteEnd(e) ==
    IF enc[e].bx # MAX_BITS + 1 THEN Len(enc[e].out)
    ELSE Bind(PatchesAt(enc[e].b), LAMBDA ex :
        Bind(Len(enc[e].out) - Len(ex) - Len(vbEnc32(ex)) + VbLenSum(ex, Len(ex)), LAMBDA op :
            IF op > Len(enc[e].out) THEN op ELSE Len(enc[e].out)))

\* C21: for every n in 1..256 and every input no encoder writes a byte at
\* or beyond offset n*5 + 16 of the output buffer
C21_OutputBound ==
    \A e \in DOMAIN enc : WriteEnd(e) <= Len(input) * 5 + 16

\* a block of 256 values of 32 bits, 1025 bytes, and its buffer of 1296
C21_Witness ==
    /\ Len(input) = MAX_VALUES
    /\ \E e \in DOMAIN enc :
           enc[e].b = MAX_BITS /\ enc[e].bx = 0 /\ WriteEnd(e) = 4 * MAX_VALUES + 1

\* the values of the first of two consecutive blocks
FirstBlock == SubSeq(input, 1, enc["first"].n)

\* the first block packed as it is, at the width of its widest value, and
\* unpacked by one call of the fused delta1 unpack
UnpackedWhole ==
    bitunpackd1_32Scalar(Mem(bitpack32Scalar(FirstBlock, Len(FirstBlock),
                                             bitWidth32(OrAll(FirstBlock)))),
                         0, Len(FirstBlock), start, bitWidth32(OrAll(FirstBlock)))

\* C22: decoding two consecutive blocks, the second with start set to the
\* last value decoded from the first, yields the values
\* x[i] = start + i + 1 + prefix_sum(d)[i] mod 2^32 of the concatenated
\* deltas d with the seed of the first block; the same holds across the
\* 32-value sub-blocks inside one horizontal delta1 unpack
C22_ChainedStart ==
    /\ (pc = "decoded" /\ DOMAIN enc = {"first", "second"})
          => (~dec.ub /\ Restored(dec.out))
    /\ (pc = "second" /\ DOMAIN enc = {"first", "second"})
          => (~UnpackedWhole.ub /\ UnpackedWhole.out = SubSeq(dec.out, 1, Len(FirstBlock))
              /\ \A i \in 1..Len(FirstBlock) :
                    dec.out[i] = NextOriginal(IF i = 1 THEN start ELSE dec.out[i - 1], input[i]))

\* two blocks of 64 and 193 values have been decoded, the first as two
\* sub-blocks of 32 values without patches, from a start value that makes
\* the running sum wrap
C22_Witness ==
    /\ pc = "decoded" /\ DOMAIN enc = {"first", "second"}
    /\ enc["first"].n = 64 /\ enc["second"].n = 193
    /\ enc["first"].bx = 0 /\ enc["first"].b > 0
    /\ start = Seeds[2]
    /\ dec.out[65] = NextOriginal(dec.out[64], input[65])
    /\ Restored(dec.out)

\* C23: for every n >= 1 and every array of n values, vbDec32 applied to the
\* output of vbEnc32 returns the same n values and consumes exactly the
\* bytes vbEnc32 produced, in the per-value form (1 to 5 bytes per value)
\* and in the 0xFF escape form
C23_VbyteRoundTrip ==
    (pc = "decoded" /\ layout = "vb")
        => /\ dec.out = input
           /\ dec.ip = Len(enc["vbyte"].out)
           /\ \/ enc["vbyte"].out = VbEscapeForm(input)
              \/ /\ enc["vbyte"].out = VbConcat(input, Len(input))
                 /\ enc["vbyte"].out[1] # VBYTE_ESCAPE_UNCOMPRESSED

\* sixteen values in the per-value form, two codes of 5 bytes and fourteen
\* of 1 byte, have been decoded
C23_Witness ==
    /\ pc = "decoded" /\ layout = "vb"
    /\ Len(input) = 16
    /\ enc["vbyte"].out[1] = VBYTE_MARKER_4PLUS + 1
    /\ VbLen(input[2]) = 5
    /\ dec.ip = VbLenSum(input, 16)
    /\ dec.ip = 24
    /\ dec.out = input

\* the number of exceptions at base width b below position p
Rank(b, p) == Cardinality({ q \in exception_positions(input, Len(input), b) : q < p })

\* C24: for every patched block the exceptions are emitted in strictly
\* ascending position order: the k-th value of the patch stream, and with
\* variable-byte patches the k-th position byte, belongs to the k-th lowest
\* position whose value exceeds (1 << b) - 1
C24_AscendingExceptions ==
    pc = "decode" =>
    \A e \in DOMAIN enc :
        Bind(exception_positions(input, Len(input), enc[e].b), LAMBDA E :
            /\ enc[e].bx \in 1..MAX_BITS
                  => \A p \in E :
                         HField(enc[e].out, 2 + pad8(Len(input)), Rank(enc[e].b, p), enc[e].bx)
                             = U32Shr(input[p + 1], enc[e].b)
            /\ enc[e].bx = MAX_BITS + 1
                  => Bind(vbDec32(Mem(enc[e].out), 2 + pad8(Len(input) * enc[e].b),
                                  Cardinality(E)).out, LAMBDA patches :
                         \A p \in E :
                             /\ patches[Rank(enc[e].b, p) + 1] = U32Shr(input[p + 1], enc[e].b)
                             /\ enc[e].out[Len(enc[e].out) - Cardinality(E) + Rank(enc[e].b, p) + 1]
                                  = p % 256))

\* a block with three or more bitmap patches, the lowest two of different
\* value, has been encoded
C24_Witness ==
    /\ pc = "decode"
    /\ \E e \in DOMAIN enc :
        /\ enc[e].bx = 2
        /\ \E p, q \in exception_positions(input, Len(input), enc[e].b) :
              /\ Rank(enc[e].b, p) = 0 /\ Rank(enc[e].b, q) = 1
              /\ input[p + 1] # input[q + 1]
              /\ HField(enc[e].out, 2 + pad8(Len(input)), 1, 2) = U32Shr(input[q + 1], enc[e].b)

\* the lanes of the vertical layout of the block
Lanes == IF layout = "256v" THEN V256_LANE_COUNT ELSE V128_LANE_COUNT

\* the fused delta1 + patching kernel run group by group on the base
\* payload of the block encoded as e, with the patches of the block; cur
\* collects the patch cursor after each group
KernelTrace(e) ==
    Loop(LAMBDA r, G :
             Bind(UnpackStep(Lanes, enc[e].b, G, TRUE, TRUE, Mem(enc[e].out),
                             exception_positions(input, Len(input), enc[e].b),
                             PatchesAt(enc[e].b), r.st), LAMBDA st :
                 [ st |-> st, cur |-> Append(r.cur, st.pex) ]),
         [ st |-> [ ip |-> Len(enc[e].out) - pad8(Len(input) * enc[e].b),
                    iv |-> [ lane \in 1..Lanes |-> {} ], idx |-> -1, sv |-> start,
                    pex |-> 0, out |-> << >> ],
           cur |-> << >> ],
         0, V128_GROUP_COUNT - 1)

\* a block of the vertical layouts has been encoded with bitmap patches
VerticalBitmapBlock(e) ==
    /\ pc = "decode" /\ layout \in {"128v", "256v"}
    /\ e \in DOMAIN enc
    /\ enc[e].bx \in 1..MAX_BITS

\* C25: in the fused patching kernels, after the groups 0..g the patch
\* cursor has advanced by the number of set bitmap bits at the positions
\* below (g+1)*L, a group of 8 lanes taking the patches of its low four
\* lanes before those of its high four lanes (every position gets the patch
\* of its rank); after the last group the cursor has advanced by the
\* exception count
C25_PatchCursor ==
    \A e \in {"scalar", "simd"} :
        VerticalBitmapBlock(e)
            => Bind(KernelTrace(e), LAMBDA r :
                   /\ \A g \in 0..(V128_GROUP_COUNT - 1) :
                         r.cur[g + 1] = Rank(enc[e].b, (g + 1) * Lanes)
                   /\ r.st.pex = Cardinality(exception_positions(input, Len(input), enc[e].b))
                   /\ Restored(r.st.out))

\* a block of 256 values in 8 lanes has a group with patches in its low and
\* in its high four lanes, and the kernel has patched it
C25_Witness ==
    /\ VerticalBitmapBlock("simd") /\ layout = "256v"
    /\ \E g \in 0..(V128_GROUP_COUNT - 1) :
          /\ Rank(enc["simd"].b, 8 * g + 4) > Rank(enc["simd"].b, 8 * g)
          /\ Rank(enc["simd"].b, 8 * g + 8) > Rank(enc["simd"].b, 8 * g + 4)
          /\ KernelTrace("simd").cur[g + 1] = Rank(enc["simd"].b, 8 * g + 8)

\* the fused delta1 kernel run group by group on the base payload of the
\* block encoded as e; sv collects the carry after each group
CarryTrace(e) ==
    Loop(LAMBDA r, G :
             Bind(UnpackStep(Lanes, enc[e].b, G, TRUE, FALSE, Mem(enc[e].out), {}, << >>, r.st),
                  LAMBDA st : [ st |-> st, sv |-> Append(r.sv, st.sv) ]),
         [ st |-> [ ip |-> 1, iv |-> [ lane \in 1..Lanes |-> {} ], idx |-> -1, sv |-> start,
                    pex |-> 0, out |-> << >> ],
           sv |-> << >> ],
         0, V128_GROUP_COUNT - 1)

\* a block of the vertical layouts has been encoded without patches
VerticalSimpleBlock(e) ==
    /\ pc = "decode" /\ layout \in {"128v", "256v"}
    /\ e \in DOMAIN enc
    /\ enc[e].bx = 0 /\ enc[e].b > 0

\* value i (from 1) of group g is the carry plus the sum of the deltas of
\* the group up to it plus their number, modulo 2^32
GroupFromCarry(out, g, carry) ==
    \A lane \in 1..Lanes :
        out[g * Lanes + lane]
            = NextOriginal(IF lane = 1 THEN carry ELSE out[g * Lanes + lane - 1],
                           input[g * Lanes + lane])

\* C26: in the fused delta1 kernels the carry added to every lane of group
\* g+1 is the last (highest-position) decoded value of group g, and for
\* group 0 it is the seed start, all additions modulo 2^32; the same for
\* the prefix sum applied after the unpack
C26_CarryIsLastValue ==
    /\ \A e \in {"scalar", "simd"} :
          VerticalSimpleBlock(e)
              => Bind(CarryTrace(e), LAMBDA r :
                     /\ GroupFromCarry(r.st.out, 0, start)
                     /\ \A g \in 0..(V128_GROUP_COUNT - 2) :
                           /\ r.sv[g + 1] = r.st.out[(g + 1) * Lanes]
                           /\ GroupFromCarry(r.st.out, g + 1, r.sv[g + 1]))
    /\ (pc = "decode" /\ layout = "128v")
          => Restored(simd_applyDelta1(input, Len(input), start))
    /\ (pc = "decode" /\ layout = "256v")
          => Restored(applyDelta1_256v(input, Len(input), start))

\* a block of 256 values in 8 lanes without patches, decoded from a start
\* value that makes the running sum wrap inside the first groups
C26_Witness ==
    /\ VerticalSimpleBlock("simd") /\ layout = "256v"
    /\ start = Seeds[2]
    /\ Bind(CarryTrace("simd"), LAMBDA r :
           /\ r.sv[1] = r.st.out[8]
           /\ r.sv[1] # start
           /\ \E i \in 2..16 : 31 \in r.st.out[i - 1] /\ 31 \notin r.st.out[i])

\* the block packed at width b by the scalar and by the SIMD packer of the
\* layout, and each packing unpacked by the scalar and by the SIMD unpacker
VPackScalar(b) == bitpackVScalar(Lanes, input, b)

VPackSimd(b) == IF layout = "256v" THEN simd_bitpack256v32(input, b) ELSE simd_bitpack128v32(input, b)

VUnpackScalar(bytes, b) == bitunpackVScalar(Lanes, Mem(bytes), 0, b)

VUnpackSimd(bytes, b) ==
    IF layout = "256v" THEN simd_bitunpack256v32(FALSE, FALSE, Mem(bytes), 0, b, {}, {}, << >>)
    ELSE simd_bitunpack128v32(FALSE, FALSE, Mem(bytes), 0, b, {}, {}, << >>)

\* packing at width b takes n*b/8 bytes, puts value i in lane i mod L of
\* group i / L, and unpacking returns the block and the offset n*b/8
VRoundTrip(bytes, b) ==
    /\ Len(bytes) = (Len(input) * b) \div 8
    /\ \A i \in 0..(Len(input) - 1) : VField(bytes, 0, Lanes, i, b) = input[i + 1]
    /\ \A r \in { VUnpackScalar(bytes, b), VUnpackSimd(bytes, b) } :
          ~r.ub /\ r.out = input /\ r.ip = (Len(input) * b) \div 8

\* C27: for L in {4, 8}, n = 32*L, every b in 0..32 and every block whose
\* values fit in b bits, the vertical unpack of the vertical pack returns
\* the block in its original order (value i in lane i mod L of group i / L)
\* and pack and unpack both advance by exactly n*b/8 bytes, for the scalar
\* and the SIMD kernels alike
C27_VerticalRoundTrip ==
    (pc = "decode" /\ layout \in {"128v", "256v"})
        => \A b \in {MaxWidth, MAX_BITS} :
               VRoundTrip(VPackScalar(b), b) /\ VRoundTrip(VPackSimd(b), b)

\* a block of 256 values of 13 bits without patches has been encoded by the
\* AVX2 encoder as its header and the 416 bytes of the vertical pack
C27_Witness ==
    /\ VerticalSimpleBlock("simd") /\ layout = "256v"
    /\ MaxWidth = 13
    /\ enc["simd"].out = << 13 >> \o VPackSimd(13)
    /\ Len(VPackSimd(13)) = 416
    /\ VUnpackSimd(VPackSimd(13), 13).out = input

\* the widths at which the block is packed: that of its widest value, the
\* next one, and 32
PackWidths == { b \in {MaxWidth, MaxWidth + 1, MAX_BITS} : b >= 1 /\ b <= MAX_BITS }

\* C28: for every n in 1..256 and every b in 1..32, bitpack32Scalar writes
\* value i (which fits in b bits) at the bits [i*b, (i+1)*b) of a
\* little-endian bit stream of ceil(n*b/8) bytes, however the input is split
\* into 32-value blocks and smaller sub-blocks
C28_HorizontalBitPositions ==
    (pc = "decode" /\ layout = "32")
        => \A b \in PackWidths :
               Bind(bitpack32Scalar(input, Len(input), b), LAMBDA bytes :
                   /\ Len(bytes) = pad8(Len(input) * b)
                   /\ \A i \in 0..(Len(input) - 1) : HField(bytes, 0, i, b) = input[i + 1])

\* 33 values of a width other than 8, 16 and 32, a block of 32 and a
\* sub-block of one, have been encoded without patches as the header and
\* the bytes of the stream
C28_Witness ==
    /\ pc = "decode" /\ layout = "32"
    /\ Len(input) = 33
    /\ enc["scalar"].bx = 0
    /\ \E b \in 1..MAX_BITS :
          /\ b \notin {8, 16, 32}
          /\ enc["scalar"].out = << b >> \o bitpack32Scalar(input, 33, b)
          /\ HField(enc["scalar"].out, 1, 32, b) = input[33]

\* C29: for every block of exactly 128 values the analyzers p4Bits128, in
\* the scalar and in the SSE version, return the same (b, bx) as p4Bits32
\* called with n = 128
C29_AnalyzersAgree ==
    (pc = "decode" /\ layout = "128v")
        => /\ scalar_p4Bits128(input) = p4Bits32(input)
           /\ simd_p4Bits128(input) = p4Bits32(input)
           /\ \A e \in DOMAIN enc : << enc[e].b, enc[e].bx >> = p4Bits32(input)

\* a block of 128 values for which the scan of the analyzers ran and chose
\* variable-byte patches has been encoded by both encoders
C29_Witness ==
    /\ pc = "decode" /\ layout = "128v"
    /\ Len(input) = 128
    /\ ScanRan(input)
    /\ p4Bits32(input)[2] = MAX_BITS + 1
    /\ DOMAIN enc = {"scalar", "simd"}
    /\ enc["scalar"].bx = MAX_BITS + 1 /\ enc["simd"].bx = MAX_BITS + 1

\* C30: for every bitmap-patched block every exception's high part
\* (value >> b) lies in 1..2^bx - 1, so packing the patches at width bx
\* with the non-masking packer loses no bits and does not spill into the
\* neighbouring patches: unpacking the patch stream gives the high parts
C30_PatchesFitWidth ==
    pc = "decode" =>
    \A e \in DOMAIN enc :
        enc[e].bx \in 1..MAX_BITS
            => /\ \A p \in exception_positions(input, Len(input), enc[e].b) :
                     /\ U32Shr(input[p + 1], enc[e].b) # {}
                     /\ U32Shr(input[p + 1], enc[e].b) \subseteq 0..(enc[e].bx - 1)
               /\ Bind(PatchesAt(enc[e].b), LAMBDA ex :
                      bitunpack32Scalar(Mem(bitpack32Scalar(ex, Len(ex), enc[e].bx)),
                                        0, Len(ex), enc[e].bx).out = ex)

\* a bitmap-patched block with patches of eight bits or more that use the
\* top bit of the patch width, two neighbours of different value among them
C30_Witness ==
    /\ pc = "decode"
    /\ \E e \in DOMAIN enc :
          /\ enc[e].bx \in 8..MAX_BITS
          /\ Bind(PatchesAt(enc[e].b), LAMBDA ex :
                 /\ Len(ex) >= 2
                 /\ \E k \in 1..(Len(ex) - 1) :
                       (enc[e].bx - 1) \in ex[k] /\ ex[k] # ex[k + 1])

\* C2: for every block D of 256 values and every start value, whatever the
\* strategy and the number of exceptions, p4D1Dec256v32 applied to the output
\* of p4Enc256v32 yields out[i] = start + sum over j <= i of (D[j] + 1)
C2_RoundTrip256 ==
    (pc = "decoded" /\ layout = "256v") => (~dec.ub /\ Restored(dec.out))

\* C3: for every block D of 128 values and every start value, p4D1Dec128v32
\* (scalar or SSE) applied to the output of p4Enc128v32 (scalar or SSE)
\* yields out[i] = start + sum over j <= i of (D[j] + 1), modulo 2^32
C3_RoundTrip128 ==
    (pc = "decoded" /\ layout = "128v") => (~dec.ub /\ Restored(dec.out))

\* a bitmap-patched block of the scalar encoder decoded by the SSE decoder,
\* and one of the SSE encoder decoded by the scalar decoder, with a start
\* value that makes the running sum wrap
C3_Witness ==
    /\ pc = "decoded" /\ layout = "128v"
    /\ dec.src # dec.by
    /\ enc[dec.src].bx \in 1..MAX_BITS
    /\ start = Seeds[2]
    /\ \E i \in 2..Len(input) : 31 \in dec.out[i - 1] /\ 31 \notin dec.out[i]
    /\ Restored(dec.out)

\* C4: for each layout, every strategy and every base width b in 0..32, the
\* offset the decoder returns after decoding a block equals the number of
\* bytes the matching encoder reported for that block, so that the next
\* block is read from the right place
C4_ReturnedOffset ==
    pc = "decoded" => dec.ip = Len(enc[dec.src].out)

\* the block decoded had a header with a base width above 32
CorruptDecoded == pc = "decoded" /\ enc[dec.src].b > MAX_BITS

\* C5: every decoder entry point (p4D1Dec32, p4D1Dec128v32, p4D1Dec256v32)
\* rejects a block whose header carries a base width above 32 once the flag
\* bits are masked off: it decodes no value from it, and what it does is
\* defined
C5_CorruptHeaderRejected ==
    CorruptDecoded => (~dec.ub /\ dec.out = << >>)

\* the number of values of the block with a bit at or above base
ExceptionCount(base) == Cardinality(exception_positions(input, Len(input), base))

\* sum of vbyte_len over the high parts of the exceptions at base
VbyteLenOfPatches(base) ==
    Bind(PatchesAt(base), LAMBDA ex :
        Loop(LAMBDA sum, k : sum + Len(vbPut32(ex[k])), 0, 1, Len(ex)))

\* the three sizes of the cost model at a candidate base width
SizeSimple(base) == pad8(Len(input) * base) + 1

SizeBitmap(base) ==
    pad8(Len(input) * base) + 2 + pad8(Len(input))
    + pad8(ExceptionCount(base) * (MaxWidth - base))

SizeVbyte(base) ==
    pad8(Len(input) * base) + 2 + ExceptionCount(base) + VbyteLenOfPatches(base)

\* the size of the cost model for the (b, bx) the analyzer returned
SizeChosen(e) ==
    IF e.bx = 0 THEN SizeSimple(e.b)
    ELSE IF e.bx <= MAX_BITS THEN SizeBitmap(e.b)
    ELSE SizeVbyte(e.b)

\* C6: for every input of n in 1..256 values that is neither all zero nor
\* constant, the (b, bx) returned by the analyzer has a model size
\* (size_simple, size_bitmap, or size_vbyte = pad8(n*base) + 2 + x + sum of
\* vbyte_len(high_bits_i)) that is at most the model size of every candidate
\* base in 0..max_b under every strategy valid at that base
C6_SelectBitsOptimal ==
    (pc = "decode" /\ ScanRan(input))
        => \A base \in 0..MaxWidth :
               /\ ExceptionCount(base) = 0 => SizeChosen(enc["scalar"]) <= SizeSimple(base)
               /\ ExceptionCount(base) > 0 => SizeChosen(enc["scalar"]) <= SizeBitmap(base)
               /\ ExceptionCount(base) > 0 => SizeChosen(enc["scalar"]) <= SizeVbyte(base)

\* the bytes of encoding e with the unused bits of the last byte of a
\* bit-packed patch stream cleared: the stream holds x patches of bx bits
\* after the two header bytes and the bitmap; the bitmap and the base values
\* of a block of 128 or 256 values fill whole bytes
MaskedBytes(e) ==
    IF e.bx \in 1..MAX_BITS /\ (ExceptionCount(e.b) * e.bx) % 8 # 0
    THEN [ e.out EXCEPT ![2 + pad8(Len(input)) + pad8(ExceptionCount(e.b) * e.bx)] =
               @ % Pow2((ExceptionCount(e.b) * e.bx) % 8) ]
    ELSE e.out

\* C7: for every block of 128 values the scalar and the SSE 128v encoder
\* return the same encoded length and the same bytes once the unused
\* padding bits after the last packed value are masked, and so do the
\* scalar and the AVX2 256v encoder for every block of 256 values
C7_EncodersAgree ==
    (pc = "decode" /\ layout \in {"128v", "256v"})
        => /\ Len(enc["scalar"].out) = Len(enc["simd"].out)
           /\ MaskedBytes(enc["scalar"]) = MaskedBytes(enc["simd"])

\* a block of 128 values packed by one of the specialised SSE packers, with
\* a patch stream that ends inside a byte
C7_Witness ==
    /\ pc = "decode" /\ layout = "128v"
    /\ enc["simd"].b \in {1, 2, 4, 8, 16}
    /\ enc["simd"].bx \in 1..MAX_BITS
    /\ (ExceptionCount(enc["simd"].b) * enc["simd"].bx) % 8 # 0
    /\ Len(enc["scalar"].out) > 2 + 16 + 16 * enc["simd"].b
    /\ enc["scalar"].out = enc["simd"].out

\* what the other 128v decoder returns for the block that was decoded
OtherDecoder128 ==
    IF dec.by = "scalar" THEN simd_p4D1Dec128v32(Mem(enc[dec.src].out), Len(input), start)
    ELSE scalar_p4D1Dec128v32(Mem(enc[dec.src].out), Len(input), start)

\* C8: for every well-formed 128v block and every start value the scalar and
\* the SSE decoder write identical values to all 128 output positions,
\* whichever of the two encoders produced the block
C8_DecodersAgree ==
    (pc = "decoded" /\ layout = "128v")
        => /\ ~dec.ub /\ ~OtherDecoder128.ub
           /\ Len(dec.out) = V128_LANE_COUNT * V128_GROUP_COUNT
           /\ OtherDecoder128.out = dec.out

\* a bitmap-patched block with patches in neighbouring positions and a base
\* width above 0, decoded from a wrapping start value
C8_Witness ==
    /\ pc = "decoded" /\ layout = "128v"
    /\ enc[dec.src].bx \in 1..MAX_BITS
    /\ enc[dec.src].b > 0
    /\ ExceptionCount(enc[dec.src].b) >= 32
    /\ start = Seeds[2]
    /\ OtherDecoder128.out = dec.out
    /\ Restored(dec.out)

\* C9: for every n in 1..256 and every layout, a block whose values are all
\* zero is encoded as exactly one byte, 0x00
C9_AllZeroBlock ==
    (pc # "encode" /\ OrAll(input) = {})
        => \A e \in DOMAIN enc : enc[e].out = << 0 >>

\* a block of 256 zeros encoded by the scalar and by the AVX2 encoder
C9_Witness ==
    /\ pc = "decode" /\ layout = "256v"
    /\ OrAll(input) = {}
    /\ Len(input) = MAX_VALUES
    /\ DOMAIN enc = {"scalar", "simd"}
    /\ \A e \in DOMAIN enc : Len(enc[e].out) = 1

\* the block is n copies of a value c that is not 0
ConstantBlock == input[1] # {} /\ \A i \in 1..Len(input) : input[i] = input[1]

\* C10: for every n in 1..256 and every c that is not 0, a block of n copies
\* of c is encoded as one header byte whose top two bits are 11 and whose low
\* six bits are bw(c), followed by exactly ceil(bw(c)/8) payload bytes that
\* hold c in little-endian order
C10_ConstantBlock ==
    (pc # "encode" /\ ConstantBlock)
        => \A e \in DOMAIN enc :
               enc[e].out = << 192 + bitWidth32(input[1]) >>
                            \o [ k \in 1..pad8(bitWidth32(input[1])) |-> ByteAt(input[1], k - 1) ]

\* a single value of 17 bits, stored in three bytes
C10_Witness ==
    /\ pc = "decode" /\ layout = "32"
    /\ Len(input) = 1
    /\ bitWidth32(input[1]) = 17
    /\ Len(Encoded32) = 4
    /\ Encoded32[1] = 192 + 17
    /\ Encoded32[4] = ByteAt(input[1], 2)

====
